---- MODULE Spec2Model ----
(***************************************************************************)
(* Model of the Plant-RAG ingestion pipeline: the document readers of      *)
(* file_reader.py (text-layer classifier, OCR engine cache, read_pdf,      *)
(* read_djvu) and the batch script main.py (semantic_chunk, resume /       *)
(* checkpoint, embeddings stage, FAISS index construction).                *)
(*                                                                         *)
(* Strings are run-length encoded: a string is a sequence of runs          *)
(* [c |-> character, n |-> repetitions], kept canonical (n >= 1, adjacent  *)
(* runs carry different characters).  Similarities are in hundredths.      *)
(***************************************************************************)
EXTENDS Integers, Sequences, FiniteSets, TLC

\* ------------------------------------------------------------------------
\* Bounds of the model
\* ------------------------------------------------------------------------
MaxSentences == 3
MaxRefeed == 1
MaxReaderCalls == 3
MaxPages == 2
MaxFiles == 2
MaxStored == 2

\* ------------------------------------------------------------------------
\* Program constants
\* ------------------------------------------------------------------------
\* SIM_THRESHOLD = 0.80, in hundredths
SIM_THRESHOLD == 80

\* MIN_SPECIES_OCC
MIN_SPECIES_OCC == 3

\* ------------------------------------------------------------------------
\* Characters and strings
\* ------------------------------------------------------------------------
SP == " "
NL == "NL"
CTRL == "x01"
JUNK == "#"
DOT == "."
Letters == {"A", "B", "C"}

Run(c, n) == [c |-> c, n |-> n]

Rep(c, n) == IF n = 0 THEN <<>> ELSE <<Run(c, n)>>

\* Python's str.isspace for the characters of the model
IsSpace(c) == c \in {SP, NL}

\* the character class [А-Яа-яЁёA-Za-z0-9\s\.\,\!\?\;\:\-\(\)]
IsUseful(c) == c \in Letters \/ c = DOT \/ IsSpace(c)

\* the sum of the numbers xs[lo..hi]
RECURSIVE SumRange(_, _, _)
SumRange(xs, lo, hi) ==
    IF lo > hi THEN 0
    ELSE IF lo = hi THEN xs[lo]
    ELSE LET mid == (lo + hi) \div 2
         IN  SumRange(xs, lo, mid) + SumRange(xs, mid + 1, hi)

MinOf(S) == CHOOSE x \in S : \A y \in S : x <= y
MaxOf(S) == CHOOSE x \in S : \A y \in S : x >= y

\* the members of a set of numbers in increasing order
SortSet(S) ==
    LET rank == [x \in S |-> 1 + Cardinality({y \in S : y < x})]
    IN  [k \in 1..Cardinality(S) |-> CHOOSE x \in S : rank[x] = k]

RunLengths(s) == [i \in 1..Len(s) |-> s[i].n]

IsCanon(s) ==
    \A i \in 1..Len(s) : s[i].n > 0 /\ (i > 1 => s[i].c # s[i - 1].c)

\* the canonical form: no empty run, adjacent runs of one character merged
Canon(s) ==
    IF IsCanon(s) THEN s ELSE
    LET nz == SelectSeq(s, LAMBDA r : r.n > 0)
        st == SortSet({i \in 1..Len(nz) : i = 1 \/ nz[i].c # nz[i - 1].c})
    IN  [k \in 1..Len(st) |->
            Run(nz[st[k]].c,
                SumRange(RunLengths(nz), st[k],
                         IF k < Len(st) THEN st[k + 1] - 1 ELSE Len(nz)))]

Cat(a, b) == Canon(a \o b)

\* len(s)
PyLen(s) == SumRange(RunLengths(s), 1, Len(s))

\* the places of the non-whitespace runs
NonSpace(s) == {i \in 1..Len(s) : ~IsSpace(s[i].c)}

\* s.strip()
Strip(s) ==
    IF NonSpace(s) = {} THEN <<>>
    ELSE SubSeq(s, MinOf(NonSpace(s)), MaxOf(NonSpace(s)))

\* s.split(): the maximal runs of non-whitespace characters
Split(s) ==
    LET ns == NonSpace(s)
        st == SortSet({i \in ns : i - 1 \notin ns})
        en == SortSet({i \in ns : i + 1 \notin ns})
    IN  [k \in 1..Len(st) |-> SubSeq(s, st[k], en[k])]

\* sep.join(parts)
RECURSIVE JoinRange(_, _, _, _)
JoinRange(parts, sep, lo, hi) ==
    IF lo > hi THEN <<>>
    ELSE IF lo = hi THEN parts[lo]
    ELSE LET mid == (lo + hi) \div 2
         IN  JoinRange(parts, sep, lo, mid) \o sep \o JoinRange(parts, sep, mid + 1, hi)

Join(parts, sep) == Canon(JoinRange(parts, sep, 1, Len(parts)))

\* re.sub(r'\s+', ' ', text): every maximal whitespace run becomes one space
ReSubWs(s) ==
    LET keep == SortSet({i \in 1..Len(s) :
                            ~IsSpace(s[i].c) \/ i = 1 \/ ~IsSpace(s[i - 1].c)})
    IN  [k \in 1..Len(keep) |->
            IF IsSpace(s[keep[k]].c) THEN Run(SP, 1) ELSE s[keep[k]]]

NormalizeTextNoStrip(text) == ReSubWs(text)

\* main.py 49-50: re.sub(r'\s+', ' ', text).strip()
normalize_text(text) == Strip(ReSubWs(text))

\* razdel.sentenize (main.py 61): a sentence ends at a terminator followed by
\* whitespace, or at the end of the text; each sentence is the substring
\* between its bounds, without the whitespace around it.
sentenize(text) ==
    LET ns == NonSpace(text)
        prev(i) == MaxOf({j \in ns : j < i})
        st == SortSet({i \in ns :
                          \/ i = MinOf(ns)
                          \/ i - 1 \notin ns /\ text[prev(i)].c = DOT})
    IN  [k \in 1..Len(st) |->
            SubSeq(text, st[k],
                   IF k < Len(st) THEN prev(st[k + 1]) ELSE MaxOf(ns))]

\* ------------------------------------------------------------------------
\* State
\* ------------------------------------------------------------------------
VARIABLES
    \* semantic_chunk (main.py 60-80)
    sc_pc, sc_text, sentences, sent_sim, chunks, current, sc_i, sc_ret,
    sc_encodes, sc_round,
    \* text-layer classifier applied to one page (file_reader.py 193-211)
    cl_pc, cl_text, cl_ratio, cl_result,
    \* the process-wide OCR engine cache (file_reader.py 18-40) and the
    \* record of the calls of get_easyocr_reader
    easyocr_reader, ctor_calls, ctor_ok, ger_calls, ger_returned, ger_ok_args,
    ger_first_args,
    \* read_pdf (file_reader.py 156-282)
    pdf_pc, pdf_doc, pdf_use_ocr, pdf_limit, pdf_ratio, page_num, pages,
    ocr_pages_count, text_pages_count, ocr_log, pdf_ret, pdf_error,
    \* read_djvu (file_reader.py 376-492) and the DjVuLibre tools it looks for
    dj_pc, djvutxt_found, djvused_found, ddjvu_found, dj_use_ocr, dj_limit,
    dj_total, page_idx, pages_text, ocr_count, img_path, tmp_files, subprocs,
    dj_recogs, dj_ret, dj_raised, dj_native, djvutxt_res, dj_log,
    \* the batch script main.py: command line, input directory, files on disk
    args_force, data_dir, chunks_file, meta_file, species_file, npy_file, index_file,
    \* ... and the state of the run
    pc, resume, files, file_i, raw_text, all_chunks, metadata, species_counter,
    species_final, embeddings, index, error,
    \* record of the run: the read_file calls, what each returned, and what
    \* each document added to the entity counter
    reads, doc_raw, contrib

classifyVars == <<cl_pc, cl_text, cl_ratio, cl_result>>

ocrVars == <<easyocr_reader, ctor_calls, ctor_ok, ger_calls, ger_returned,
             ger_ok_args, ger_first_args>>

pdfVars == <<pdf_pc, pdf_doc, pdf_use_ocr, pdf_limit, pdf_ratio, page_num, pages,
             ocr_pages_count, text_pages_count, ocr_log, pdf_ret, pdf_error>>

chunkVars == <<sc_pc, sc_text, sentences, sent_sim, chunks, current, sc_i,
               sc_ret, sc_encodes, sc_round>>

djvuVars == <<dj_pc, djvutxt_found, djvused_found, ddjvu_found, dj_use_ocr, dj_limit,
              dj_total, page_idx, pages_text, ocr_count, img_path, tmp_files, subprocs,
              dj_recogs, dj_ret, dj_raised, dj_native, djvutxt_res, dj_log>>

diskVars == <<args_force, data_dir, chunks_file, meta_file, species_file, npy_file,
              index_file>>

runVars == <<pc, resume, files, file_i, raw_text, all_chunks, metadata,
             species_counter, species_final, embeddings, index, error,
             reads, doc_raw, contrib>>

mainVars == <<diskVars, runVars>>

notMain == <<chunkVars, classifyVars, ocrVars, pdfVars, djvuVars>>

vars == <<chunkVars, classifyVars, ocrVars, pdfVars, djvuVars, mainVars>>

\* what the steps of one component leave alone
notChunk == <<classifyVars, ocrVars, pdfVars, djvuVars, mainVars>>
notClassify == <<chunkVars, ocrVars, pdfVars, djvuVars, mainVars>>
notOcr == <<chunkVars, classifyVars, pdfVars, djvuVars, mainVars>>
notPdf == <<chunkVars, classifyVars, djvuVars, mainVars>>
notDjvu == <<chunkVars, classifyVars, pdfVars, mainVars>>
notMainChunk == <<classifyVars, ocrVars, pdfVars, djvuVars>>

\* ------------------------------------------------------------------------
\* semantic_chunk
\* ------------------------------------------------------------------------
SentencePool == {<<Run("A", 1), Run(DOT, 1)>>, <<Run("B", 1), Run(DOT, 1)>>,
                 <<Run("C", 1), Run(DOT, 1)>>, <<Run("A", 1)>>}

SeqsUpTo(S, n) == UNION {[1..k -> S] : k \in 0..n}

\* texts handed to semantic_chunk: sentences and fragments joined by one space
BaseChunkTexts == {Join(ss, <<Run(SP, 1)>>) : ss \in SeqsUpTo(SentencePool, MaxSentences)}

\* the same texts with surrounding whitespace, as a caller may pass them
ChunkTexts ==
    BaseChunkTexts
    \cup {Cat(<<Run(SP, 1)>>, t) : t \in BaseChunkTexts}
    \cup {Cat(t, <<Run(NL, 2)>>) : t \in BaseChunkTexts}

\* np.dot(sent_emb[i - 1], sent_emb[i]) of unit vectors, in hundredths
SimValues == {30, 79, 80, 90}

ChunkIdle ==
    /\ sc_pc = "idle" /\ sc_text = <<>> /\ sentences = <<>> /\ sent_sim = <<>>
    /\ chunks = <<>> /\ current = <<>> /\ sc_i = 0 /\ sc_ret = <<>>
    /\ sc_encodes = 0 /\ sc_round = 0

ClassifyIdle ==
    cl_pc = "idle" /\ cl_text = <<>> /\ cl_ratio = 0 /\ cl_result = "none"

\* _easyocr_reader = None (file_reader.py 19); instances are numbered from 1
NoReader == [id |-> 0, lang |-> "", gpu |-> FALSE]

NoArgs == [lang |-> "", gpu |-> FALSE]

\* ocr_page_limit = None
NoLimit == -1

OcrIdle ==
    /\ easyocr_reader = NoReader /\ ctor_calls = 0 /\ ctor_ok = 0 /\ ger_calls = 0
    /\ ger_returned = {} /\ ger_ok_args = NoArgs /\ ger_first_args = NoArgs

PdfIdle ==
    /\ pdf_pc = "idle" /\ pdf_doc = <<>> /\ pdf_use_ocr = FALSE /\ pdf_limit = NoLimit
    /\ pdf_ratio = 0 /\ page_num = 0 /\ pages = <<>> /\ ocr_pages_count = 0
    /\ text_pages_count = 0 /\ ocr_log = <<>> /\ pdf_ret = <<>> /\ pdf_error = "none"

\* no page image is being handled
NoImage == -1

DjvuIdle ==
    /\ dj_pc = "idle" /\ djvutxt_found = FALSE /\ djvused_found = FALSE
    /\ ddjvu_found = FALSE /\ dj_use_ocr = FALSE /\ dj_limit = NoLimit
    /\ dj_total = 0 /\ page_idx = 0 /\ pages_text = <<>> /\ ocr_count = 0
    /\ img_path = NoImage /\ tmp_files = {} /\ subprocs = <<>> /\ dj_recogs = <<>>
    /\ dj_ret = <<>> /\ dj_raised = FALSE /\ dj_native = <<>>
    /\ djvutxt_res = "none" /\ dj_log = <<>>

NoFile == [exists |-> FALSE, data |-> <<>>, run |-> 0]

NoNpy == [exists |-> FALSE, rows |-> 0, origin |-> "none"]

NoIndexFile == [exists |-> FALSE, kind |-> "none", ntotal |-> 0]

NoEmbeddings == [rows |-> 0, origin |-> "none"]

NoIndex == [kind |-> "none", nlist |-> 0, trained |-> FALSE, ntotal |-> 0, nprobe |-> 0]

\* raw_text = None
NoText == [none |-> TRUE, text |-> <<>>]

LemmaSet == {"A", "B"}

RunIdle ==
    /\ resume = FALSE /\ files = <<>> /\ file_i = 1 /\ raw_text = NoText
    /\ all_chunks = <<>> /\ metadata = <<>>
    /\ species_counter = [l \in LemmaSet |-> 0] /\ species_final = <<>>
    /\ embeddings = NoEmbeddings /\ index = NoIndex /\ error = "none"
    /\ reads = <<>> /\ doc_raw = <<>> /\ contrib = <<>>

MainIdle ==
    /\ pc = "idle" /\ args_force = FALSE /\ data_dir = {}
    /\ chunks_file = NoFile /\ meta_file = NoFile /\ species_file = NoFile
    /\ npy_file = NoNpy /\ index_file = NoIndexFile
    /\ RunIdle

ChunkInit ==
    /\ ClassifyIdle /\ OcrIdle /\ PdfIdle /\ DjvuIdle /\ MainIdle
    /\ sc_pc = "call" /\ sc_text \in ChunkTexts /\ sentences = <<>>
    /\ sent_sim = <<>> /\ chunks = <<>> /\ current = <<>> /\ sc_i = 0
    /\ sc_ret = <<>> /\ sc_encodes = 0 /\ sc_round = 0

TooFewSentencesStrict(sents) == Len(sents) < 1

\* main.py 62: if len(sentences) < 2
TooFewSentences(sents) == Len(sents) < 2

BelowThresholdInclusive(sim) == sim <= SIM_THRESHOLD

\* main.py 73: if sim < SIM_THRESHOLD
BelowThreshold(sim) == sim < SIM_THRESHOLD

\* main.py 61-63
ScSentenize ==
    /\ sc_pc = "call"
    /\ sentences' = sentenize(sc_text)
    /\ IF TooFewSentences(sentences')
       THEN sc_ret' = sentences' /\ sc_pc' = "ret"
       ELSE sc_ret' = sc_ret /\ sc_pc' = "encode"
    /\ UNCHANGED <<sc_text, sent_sim, chunks, current, sc_i, sc_encodes, sc_round>>
    /\ UNCHANGED notChunk

\* main.py 64-70: the embedding call succeeds
ScEncode ==
    /\ sc_pc = "encode"
    /\ \E sims \in [1..(Len(sentences) - 1) -> SimValues] : sent_sim' = sims
    /\ sc_encodes' = sc_encodes + 1
    /\ chunks' = <<>>
    /\ current' = <<sentences[1]>>
    /\ sc_i' = 2
    /\ sc_pc' = "walk"
    /\ UNCHANGED <<sc_text, sentences, sc_ret, sc_round>>
    /\ UNCHANGED notChunk

\* main.py 64-68: embedder.encode raises; semantic_chunk has no handler
ScEncodeRaises ==
    /\ sc_pc = "encode"
    /\ sc_encodes' = sc_encodes + 1
    /\ sc_pc' = "raised"
    /\ UNCHANGED <<sc_text, sentences, sent_sim, chunks, current, sc_i, sc_ret, sc_round>>
    /\ UNCHANGED notChunk

\* main.py 71-77: one iteration of the walk (i is 1-based here)
ScWalk ==
    /\ sc_pc = "walk"
    /\ sc_i <= Len(sentences)
    /\ IF BelowThreshold(sent_sim[sc_i - 1])
       THEN /\ chunks' = Append(chunks, Join(current, <<Run(SP, 1)>>))
            /\ current' = <<sentences[sc_i]>>
       ELSE /\ chunks' = chunks
            /\ current' = Append(current, sentences[sc_i])
    /\ sc_i' = sc_i + 1
    /\ UNCHANGED <<sc_pc, sc_text, sentences, sent_sim, sc_ret, sc_encodes, sc_round>>
    /\ UNCHANGED notChunk

ScFlushDropsOpen ==
    /\ sc_pc = "walk"
    /\ sc_i > Len(sentences)
    /\ chunks' = chunks
    /\ sc_ret' = chunks'
    /\ sc_pc' = "ret"
    /\ UNCHANGED <<sc_text, sentences, sent_sim, current, sc_i, sc_encodes, sc_round>>
    /\ UNCHANGED notChunk

\* main.py 78-80
ScFlush ==
    /\ sc_pc = "walk"
    /\ sc_i > Len(sentences)
    /\ chunks' = IF current # <<>> THEN Append(chunks, Join(current, <<Run(SP, 1)>>))
                 ELSE chunks
    /\ sc_ret' = chunks'
    /\ sc_pc' = "ret"
    /\ UNCHANGED <<sc_text, sentences, sent_sim, current, sc_i, sc_encodes, sc_round>>
    /\ UNCHANGED notChunk

\* an output passage is fed to semantic_chunk again
ScRefeed ==
    /\ sc_pc = "ret"
    /\ sc_round < MaxRefeed
    /\ \E k \in 1..Len(sc_ret) : sc_text' = sc_ret[k]
    /\ sc_round' = sc_round + 1
    /\ sc_pc' = "call"
    /\ sentences' = <<>> /\ sent_sim' = <<>> /\ chunks' = <<>> /\ current' = <<>>
    /\ sc_i' = 0 /\ sc_ret' = <<>> /\ sc_encodes' = 0
    /\ UNCHANGED notChunk

ChunkNext == ScSentenize \/ ScEncode \/ ScEncodeRaises \/ ScWalk \/ ScFlush \/ ScRefeed

SpecChunk == ChunkInit /\ [][ChunkNext]_vars

\* ------------------------------------------------------------------------
\* Text-layer classifier of read_pdf (file_reader.py 193-211)
\* ------------------------------------------------------------------------
\* len(re.findall(r'[А-Яа-яЁёA-Za-z0-9\s\.\,\!\?\;\:\-\(\)]', text))
UsefulChars(text) ==
    SumRange([i \in 1..Len(text) |-> IF IsUseful(text[i].c) THEN text[i].n ELSE 0],
             1, Len(text))

\* total_chars = len(text) if text else 0
TotalChars(text) == IF text # <<>> THEN PyLen(text) ELSE 0

\* len([w for w in text.split() if len(w) >= 3])
MeaningfulWords(text) ==
    LET words == Split(text)
    IN  Cardinality({k \in 1..Len(words) : PyLen(words[k]) >= 3})

EnoughCharsInclusive(total) == total >= 100

\* file_reader.py 202: if total_chars > 100
EnoughChars(total) == total > 100

RatioOkNoFloor(useful, total, ratio) == useful * 100 >= ratio * total

\* file_reader.py 203-204: text_ratio >= min_text_ratio and useful_chars >= 50
\* (min_text_ratio in hundredths)
RatioOk(useful, total, ratio) == useful * 100 >= ratio * total /\ useful >= 50

EnoughWordsNine(text) == MeaningfulWords(text) >= 9

\* file_reader.py 208-211
EnoughWords(text) == MeaningfulWords(text) >= 10

\* file_reader.py 197-211: has_text_layer
HasTextLayer(text, ratio) ==
    LET useful_chars == UsefulChars(text)
        total_chars == TotalChars(text)
        first == IF EnoughChars(total_chars)
                 THEN RatioOk(useful_chars, total_chars, ratio)
                 ELSE FALSE
    IN  IF first THEN EnoughWords(text) ELSE FALSE

\* a text of tokens separated by single spaces: for every group, count
\* tokens of len characters c
RECURSIVE GroupTokens(_)
GroupTokens(groups) ==
    IF groups = <<>> THEN <<>>
    ELSE [k \in 1..Head(groups).count |-> <<Run(Head(groups).c, Head(groups).len)>>]
         \o GroupTokens(Tail(groups))

Grp(c, len, count) == [c |-> c, len |-> len, count |-> count]

TextOf(groups) == Join(GroupTokens(groups), <<Run(SP, 1)>>)

\* 200 characters, 190 of them useful, 40 tokens of 3 or more characters
Page200Native == TextOf(<<Grp("A", 4, 37), Grp("B", 3, 1), Grp(JUNK, 5, 2)>>)

\* 200 characters, 190 of them useful, 5 tokens of 3 or more characters
Page200FewWords ==
    TextOf(<<Grp("A", 3, 5), Grp("B", 2, 54), Grp("C", 1, 2), Grp(JUNK, 2, 5)>>)

ClassifyTexts ==
    {<<>>, Page200Native, Page200FewWords}
    \cup {TextOf(<<Grp("A", 9, 9), Grp("B", w, 1)>>) : w \in 9..11}
    \cup {TextOf(<<Grp("A", 4, 10), Grp(JUNK, j, 1)>>) : j \in 49..51}
    \cup {TextOf(<<Grp("A", 4, 8), Grp(JUNK, j, 2)>>) : j \in 29..31}
    \cup {TextOf(<<Grp("A", 3, k), Grp(JUNK, 3, 9), Grp(JUNK, 60, 1)>>) : k \in 9..12}
    \cup {TextOf(<<Grp("A", 3, k), Grp("B", 2, 30)>>) : k \in 8..11}
    \cup {TextOf(<<Grp("A", 5, 10), Grp(JUNK, 5, j)>>) : j \in {40, 50, 53, 54}}
    \cup {TextOf(<<Grp("A", u, 1), Grp(JUNK, 3, 20)>>) : u \in 29..31}
    \cup {Cat(TextOf(<<Grp("A", 4, k)>>), <<Run(NL, 60)>>) : k \in 9..10}

\* min_text_ratio in hundredths (0.10 for main.py, 0.15 the default of read_file)
RatioValues == {0, 10, 15, 20, 50, 95, 96, 100}

ClassifyInit ==
    /\ ChunkIdle /\ OcrIdle /\ PdfIdle /\ DjvuIdle /\ MainIdle
    /\ cl_pc = "call" /\ cl_text \in ClassifyTexts /\ cl_ratio \in RatioValues
    /\ cl_result = "none"

\* the classification of one page, file_reader.py 194-217
Classify ==
    /\ cl_pc = "call"
    /\ cl_result' = IF HasTextLayer(cl_text, cl_ratio) THEN "native" ELSE "needs_ocr"
    /\ cl_pc' = "done"
    /\ UNCHANGED <<cl_text, cl_ratio>>
    /\ UNCHANGED notClassify

ClassifyNext == Classify

SpecClassify == ClassifyInit /\ [][ClassifyNext]_vars

\* ------------------------------------------------------------------------
\* OCR engine cache: get_easyocr_reader (file_reader.py 18-40)
\* ------------------------------------------------------------------------
LangSets == {"ru,en", "en", "ru"}

ReaderArgs == [lang : LangSets, gpu : BOOLEAN]

NeedsConstructionAlways(reader) == TRUE

\* file_reader.py 35: if _easyocr_reader is None
NeedsConstruction(reader) == reader = NoReader

\* one call get_easyocr_reader(lang, gpu); ok tells whether easyocr.Reader(...)
\* returns (TRUE) or raises (FALSE) should this call construct the engine.
\* The instance carries the number of the constructor call that made it.
GetReaderStep(lang, gpu, ok) ==
    /\ ger_calls' = ger_calls + 1
    /\ ger_first_args' = IF ger_calls = 0 THEN [lang |-> lang, gpu |-> gpu]
                         ELSE ger_first_args
    /\ IF NeedsConstruction(easyocr_reader)
       THEN /\ ctor_calls' = ctor_calls + 1
            /\ IF ok
               THEN /\ easyocr_reader' = [id |-> ctor_calls + 1, lang |-> lang, gpu |-> gpu]
                    /\ ctor_ok' = ctor_ok + 1
                    /\ ger_ok_args' = IF ctor_ok = 0 THEN [lang |-> lang, gpu |-> gpu]
                                      ELSE ger_ok_args
                    /\ ger_returned' = ger_returned \cup {easyocr_reader'}
               ELSE UNCHANGED <<easyocr_reader, ctor_ok, ger_ok_args, ger_returned>>
       ELSE /\ ger_returned' = ger_returned \cup {easyocr_reader}
            /\ UNCHANGED <<easyocr_reader, ctor_calls, ctor_ok, ger_ok_args>>

\* the state an earlier document leaves behind: the engine is constructed
EngineCached ==
    /\ easyocr_reader = [id |-> 1, lang |-> "ru,en", gpu |-> TRUE]
    /\ ctor_calls = 1 /\ ctor_ok = 1 /\ ger_calls = 1
    /\ ger_returned = {easyocr_reader}
    /\ ger_ok_args = [lang |-> "ru,en", gpu |-> TRUE]
    /\ ger_first_args = [lang |-> "ru,en", gpu |-> TRUE]

OcrInit ==
    /\ ChunkIdle /\ ClassifyIdle /\ PdfIdle /\ DjvuIdle /\ MainIdle
    /\ OcrIdle

\* a caller asks for the engine with arguments of its choice
GetEasyocrReader ==
    /\ ger_calls < MaxReaderCalls
    /\ \E a \in ReaderArgs, ok \in BOOLEAN :
          /\ (~ok => easyocr_reader = NoReader)
          /\ GetReaderStep(a.lang, a.gpu, ok)
    /\ UNCHANGED notOcr

OcrNext == GetEasyocrReader

SpecOcr == OcrInit /\ [][OcrNext]_vars

\* ------------------------------------------------------------------------
\* read_pdf (file_reader.py 156-282) with ocr_page_easyocr (498-536)
\* ------------------------------------------------------------------------
\* re.sub(r'[\x00-\x08\x0B\x0C\x0E-\x1F\x7F]', '', text)
RemoveControl(text) == Canon(SelectSeq(text, LAMBDA r : r.c # CTRL))

\* re.sub(r'\n{3,}', '\n\n', text)
CollapseNewlines(text) ==
    [i \in 1..Len(text) |-> IF text[i].c = NL /\ text[i].n >= 3 THEN Run(NL, 2) ELSE text[i]]

\* file_reader.py 253-254 (and 228-229)
Scrub(text) == CollapseNewlines(RemoveControl(text))

KeepPageInclusive(text) == text # <<>> /\ PyLen(text) >= 50

\* file_reader.py 257 (and 230): if text and len(text) > 50
KeepPage(text) == text # <<>> /\ PyLen(text) > 50

DigitOf(n) == <<"1", "2", "3", "4", "5", "6", "7", "8", "9">>[n]

PageEntryNextPage(num, text) ==
    <<Run("-", 3), Run(SP, 1), Run("P", 8), Run(SP, 1), Run(DigitOf(num + 2), 1),
      Run(SP, 1), Run("-", 3), Run(NL, 1)>> \o text

\* f"--- Страница {page_num + 1} ---\n{text}"; the word is 8 letters "P"
PageEntry(num, text) ==
    <<Run("-", 3), Run(SP, 1), Run("P", 8), Run(SP, 1), Run(DigitOf(num + 1), 1),
      Run(SP, 1), Run("-", 3), Run(NL, 1)>> \o text

PdfNative == TextOf(<<Grp("A", 10, 5), Grp("B", 10, 5)>>)
PdfNoise == <<Run(JUNK, 40), Run(SP, 1), Run("A", 20), Run(CTRL, 2)>>
PdfShort == <<Run("A", 10), Run(NL, 4), Run("B", 10)>>
PdfBlank == <<Run(SP, 2), Run(NL, 1)>>

\* page.get_text("text") of the pages of the model
PdfPageTexts == {PdfNative, PdfNoise, PdfShort, PdfBlank}

OcrLong == <<Run("C", 30), Run(NL, 1), Run("C", 30)>>
OcrShort == <<Run("C", 5)>>
OcrFifty == <<Run("C", 25), Run(SP, 1), Run("C", 24)>>

\* "\n".join(r[1] for r in results) of a recognition that returns
OcrTexts == {<<>>, <<Run(SP, 1)>>, OcrShort, OcrFifty, OcrLong}

OcrOutcomes ==
    {[kind |-> k, text |-> <<>>] : k \in {"render_fail", "ctor_fail", "recog_fail"}}
    \cup {[kind |-> "ok", text |-> t] : t \in OcrTexts}

\* ocr_page_limit: None, or a number
LimitValues == {NoLimit, 0, 1}

PdfInit ==
    /\ ChunkIdle /\ ClassifyIdle /\ DjvuIdle /\ MainIdle
    /\ \/ OcrIdle
       \/ EngineCached
    /\ pdf_pc = "open"
    /\ pdf_doc \in SeqsUpTo(PdfPageTexts, MaxPages)
    /\ pdf_use_ocr \in BOOLEAN
    /\ pdf_limit \in LimitValues
    /\ pdf_ratio = 10
    /\ page_num = 0 /\ pages = <<>> /\ ocr_pages_count = 0 /\ text_pages_count = 0
    /\ ocr_log = <<>> /\ pdf_ret = <<>> /\ pdf_error = "none"

total_pages == Len(pdf_doc)

\* file_reader.py 176-184: fitz.open succeeds
PdfOpen ==
    /\ pdf_pc = "open"
    /\ pdf_pc' = "page"
    /\ UNCHANGED <<pdf_doc, pdf_use_ocr, pdf_limit, pdf_ratio, page_num, pages,
                   ocr_pages_count, text_pages_count, ocr_log, pdf_ret, pdf_error,
                   ocrVars>>
    /\ UNCHANGED notPdf

\* file_reader.py 176-178, 271-282: the import or fitz.open raises
PdfOpenFails ==
    /\ pdf_pc = "open"
    /\ pdf_pc' = "done"
    /\ pdf_ret' = <<>>
    /\ pdf_error' = "open"
    /\ UNCHANGED <<pdf_doc, pdf_use_ocr, pdf_limit, pdf_ratio, page_num, pages,
                   ocr_pages_count, text_pages_count, ocr_log, ocrVars>>
    /\ UNCHANGED notPdf

\* file_reader.py 187-194, 271-282: doc[page_num] or page.get_text raises
PdfPageRaises ==
    /\ pdf_pc = "page" /\ page_num < total_pages
    /\ pdf_pc' = "done"
    /\ pdf_ret' = <<>>
    /\ pdf_error' = "page"
    /\ UNCHANGED <<pdf_doc, pdf_use_ocr, pdf_limit, pdf_ratio, page_num, pages,
                   ocr_pages_count, text_pages_count, ocr_log, ocrVars>>
    /\ UNCHANGED notPdf

\* file_reader.py 253-258
SavePage(text) ==
    LET t == Strip(Scrub(text))
    IN  pages' = IF KeepPage(t) THEN Append(pages, PageEntry(page_num, t)) ELSE pages

\* file_reader.py 217-219, 253-258: the page has a text layer
PdfPageNative ==
    /\ pdf_pc = "page" /\ page_num < total_pages
    /\ HasTextLayer(pdf_doc[page_num + 1], pdf_ratio)
    /\ text_pages_count' = text_pages_count + 1
    /\ SavePage(pdf_doc[page_num + 1])
    /\ page_num' = page_num + 1
    /\ UNCHANGED <<pdf_pc, pdf_doc, pdf_use_ocr, pdf_limit, pdf_ratio,
                   ocr_pages_count, ocr_log, pdf_ret, pdf_error, ocrVars>>
    /\ UNCHANGED notPdf

\* file_reader.py 245-258: no text layer and OCR is switched off
PdfPageNoOcr ==
    /\ pdf_pc = "page" /\ page_num < total_pages
    /\ ~HasTextLayer(pdf_doc[page_num + 1], pdf_ratio)
    /\ ~pdf_use_ocr
    /\ SavePage(pdf_doc[page_num + 1])
    /\ page_num' = page_num + 1
    /\ UNCHANGED <<pdf_pc, pdf_doc, pdf_use_ocr, pdf_limit, pdf_ratio,
                   ocr_pages_count, text_pages_count, ocr_log, pdf_ret, pdf_error,
                   ocrVars>>
    /\ UNCHANGED notPdf

\* file_reader.py 224: if ocr_page_limit and ocr_pages_count >= ocr_page_limit
LimitReached(limit, count) == limit # NoLimit /\ limit # 0 /\ count >= limit

\* file_reader.py 224-232: the OCR page limit is reached
PdfPageOverLimit ==
    /\ pdf_pc = "page" /\ page_num < total_pages
    /\ ~HasTextLayer(pdf_doc[page_num + 1], pdf_ratio)
    /\ pdf_use_ocr
    /\ LimitReached(pdf_limit, ocr_pages_count)
    /\ LET text == pdf_doc[page_num + 1]
           t == Scrub(text)
       IN  pages' = IF Strip(text) # <<>> /\ Strip(t) # <<>> /\ PyLen(Strip(t)) > 50
                    THEN Append(pages, PageEntry(page_num, Strip(t)))
                    ELSE pages
    /\ page_num' = page_num + 1
    /\ UNCHANGED <<pdf_pc, pdf_doc, pdf_use_ocr, pdf_limit, pdf_ratio,
                   ocr_pages_count, text_pages_count, ocr_log, pdf_ret, pdf_error,
                   ocrVars>>
    /\ UNCHANGED notPdf

\* the try block of ocr_page_easyocr (file_reader.py 512-532): what it
\* returns, or that it raised
OcrTry(outcome) ==
    IF outcome.kind = "ok" THEN [raised |-> FALSE, text |-> outcome.text]
    ELSE [raised |-> TRUE, text |-> <<>>]

OcrExceptMissing(attempt) == attempt

\* file_reader.py 534-536: except Exception: return ""
OcrExcept(attempt) ==
    IF attempt.raised THEN [raised |-> FALSE, text |-> <<>>] ELSE attempt

\* ocr_page_easyocr(page, lang, gpu, dpi_scale)
ocr_page_easyocr(outcome) == OcrExcept(OcrTry(outcome))

PageTextAfterOcrNoFallback(ocr_text, text) == ocr_text

\* file_reader.py 238-244: the recognized text when it is not blank,
\* otherwise whatever the text layer gave
PageTextAfterOcr(ocr_text, text) == IF Strip(ocr_text) # <<>> THEN ocr_text ELSE text

\* file_reader.py 234-258: the page is recognized.  An exception leaving
\* ocr_page_easyocr would end read_pdf in its own handler (271-282).
PdfPageOcr ==
    /\ pdf_pc = "page" /\ page_num < total_pages
    /\ ~HasTextLayer(pdf_doc[page_num + 1], pdf_ratio)
    /\ pdf_use_ocr
    /\ ~LimitReached(pdf_limit, ocr_pages_count)
    /\ \E outcome \in OcrOutcomes :
          LET res == ocr_page_easyocr(outcome)
              text == pdf_doc[page_num + 1]
          IN  /\ (outcome.kind = "ctor_fail" => easyocr_reader = NoReader)
              /\ IF outcome.kind = "render_fail" THEN UNCHANGED ocrVars
                 ELSE GetReaderStep("ru,en", TRUE, outcome.kind # "ctor_fail")
              /\ ocr_log' = Append(ocr_log, [page |-> page_num, kind |-> outcome.kind,
                                             raised |-> res.raised, text |-> res.text])
              /\ IF res.raised
                 THEN /\ pdf_pc' = "done" /\ pdf_ret' = <<>> /\ pdf_error' = "ocr"
                      /\ UNCHANGED <<page_num, pages, ocr_pages_count>>
                 ELSE /\ ocr_pages_count' =
                            IF Strip(res.text) # <<>> \/ Strip(text) # <<>>
                            THEN ocr_pages_count + 1 ELSE ocr_pages_count
                      /\ SavePage(PageTextAfterOcr(res.text, text))
                      /\ page_num' = page_num + 1
                      /\ UNCHANGED <<pdf_pc, pdf_ret, pdf_error>>
    /\ UNCHANGED <<pdf_doc, pdf_use_ocr, pdf_limit, pdf_ratio, text_pages_count>>
    /\ UNCHANGED notPdf

\* file_reader.py 261-269
PdfReturn ==
    /\ pdf_pc = "page" /\ page_num >= total_pages
    /\ pdf_ret' = Join(pages, <<Run(NL, 2)>>)
    /\ pdf_pc' = "done"
    /\ UNCHANGED <<pdf_doc, pdf_use_ocr, pdf_limit, pdf_ratio, page_num, pages,
                   ocr_pages_count, text_pages_count, ocr_log, pdf_error, ocrVars>>
    /\ UNCHANGED notPdf

PdfNext ==
    \/ PdfOpen \/ PdfOpenFails \/ PdfPageRaises \/ PdfPageNative \/ PdfPageNoOcr
    \/ PdfPageOverLimit \/ PdfPageOcr \/ PdfReturn

SpecPdf == PdfInit /\ [][PdfNext]_vars

\* ------------------------------------------------------------------------
\* read_djvu (file_reader.py 376-492) with find_djvulibre_exe (288-306),
\* get_djvu_page_count (309-328) and extract_djvu_page_image (331-373)
\* ------------------------------------------------------------------------
\* a page marker [12] or <<12>> in the output of djvutxt
DJMARK == "[9]"

\* re.sub(r'\[\d+\]|<<\d+>>', '', text)
RemoveMarkers(text) == Canon(SelectSeq(text, LAMBDA r : r.c # DJMARK))

\* file_reader.py 416-418
DjvuClean(stdout) == CollapseNewlines(RemoveMarkers(Strip(stdout)))

\* file_reader.py 419-421 (the ratio in hundredths)
NativeAccepted(text) ==
    /\ PyLen(text) > 800
    /\ UsefulChars(text) * 100 > 12 * (IF PyLen(text) > 1 THEN PyLen(text) ELSE 1)
    /\ MeaningfulWords(text) > 50

DjvuGood ==
    Cat(<<Run(DJMARK, 3), Run(NL, 1)>>, TextOf(<<Grp("A", 15, 26), Grp("B", 15, 26)>>))
DjvuFewWords == TextOf(<<Grp("A", 16, 50)>>)
DjvuShort == <<Run("A", 30), Run(NL, 5), Run("B", 30)>>

\* stdout of djvutxt when it exits with 0
DjvuTexts == {DjvuGood, DjvuFewWords, DjvuShort, <<>>}

\* outcomes of the djvutxt call: it times out, raises (OSError), exits non-zero,
\* or exits with 0 and some text
DjvutxtOutcomes ==
    {[kind |-> k, text |-> <<>>] : k \in {"timeout", "raises", "nonzero"}}
    \cup {[kind |-> "ok", text |-> t] : t \in DjvuTexts}

\* outcomes of the djvused call: it raises, exits non-zero, prints something
\* that is no number, or prints the page count
DjvusedOutcomes ==
    {[kind |-> k, n |-> 0] : k \in {"raises", "nonzero", "garbage"}}
    \cup {[kind |-> "ok", n |-> n] : n \in 0..MaxPages}

\* page_text of one recognized page: the fragments above the confidence
\* floor joined by newlines, stripped (file_reader.py 467-468)
DjvuOcrTexts == {<<>>, OcrShort, OcrFifty, OcrLong}

DjvuInit ==
    /\ ChunkIdle /\ ClassifyIdle /\ PdfIdle /\ MainIdle
    /\ OcrIdle
    /\ dj_pc = "native"
    /\ djvutxt_found \in BOOLEAN /\ djvused_found \in BOOLEAN /\ ddjvu_found \in BOOLEAN
    /\ dj_use_ocr \in BOOLEAN
    /\ dj_limit \in LimitValues
    /\ dj_total = 0 /\ page_idx = 0 /\ pages_text = <<>> /\ ocr_count = 0
    /\ img_path = NoImage /\ tmp_files = {} /\ subprocs = <<>> /\ dj_recogs = <<>>
    /\ dj_ret = <<>> /\ dj_raised = FALSE /\ dj_native = <<>>
    /\ djvutxt_res = "none" /\ dj_log = <<>>

ToolMissingIgnored(found) == FALSE

\* file_reader.py 293-306: find_djvulibre_exe returns None
ToolMissing(found) == ~found

\* file_reader.py 402-403: djvutxt is not found, step 1 is skipped
DjNativeSkip ==
    /\ dj_pc = "native"
    /\ ToolMissing(djvutxt_found)
    /\ dj_pc' = "gate"
    /\ UNCHANGED <<djvutxt_found, djvused_found, ddjvu_found, dj_use_ocr, dj_limit,
                   dj_total, page_idx, pages_text, ocr_count, img_path, tmp_files,
                   subprocs, dj_recogs, dj_ret, dj_raised,
                   dj_native, djvutxt_res, dj_log>>
    /\ UNCHANGED <<ocrVars, notDjvu>>

DjNativeAttemptUncaught ==
    /\ dj_pc = "native"
    /\ ~ToolMissing(djvutxt_found)
    /\ subprocs' = Append(subprocs, "djvutxt")
    /\ \E o \in DjvutxtOutcomes :
          /\ djvutxt_res' = o.kind
          /\ dj_native' = IF o.kind = "ok" THEN DjvuClean(o.text) ELSE <<>>
          /\ IF o.kind = "ok" /\ NativeAccepted(DjvuClean(o.text))
             THEN dj_ret' = DjvuClean(o.text) /\ dj_pc' = "done"
             ELSE /\ dj_ret' = dj_ret
                  /\ dj_pc' = IF o.kind = "timeout" THEN "done" ELSE "gate"
          /\ dj_raised' = (o.kind = "timeout")
    /\ UNCHANGED <<djvutxt_found, djvused_found, ddjvu_found, dj_use_ocr, dj_limit,
                   dj_total, page_idx, pages_text, ocr_count, img_path, tmp_files,
                   dj_recogs, dj_log>>
    /\ UNCHANGED <<ocrVars, notDjvu>>

\* file_reader.py 403-427: djvutxt runs; the try of 404-427 catches the
\* timeout, the OSError and every other Exception of the call
DjNativeAttempt ==
    /\ dj_pc = "native"
    /\ ~ToolMissing(djvutxt_found)
    /\ subprocs' = Append(subprocs, "djvutxt")
    /\ \E o \in DjvutxtOutcomes :
          /\ djvutxt_res' = o.kind
          /\ dj_native' = IF o.kind = "ok" THEN DjvuClean(o.text) ELSE <<>>
          /\ IF o.kind = "ok" /\ NativeAccepted(DjvuClean(o.text))
             THEN dj_ret' = DjvuClean(o.text) /\ dj_pc' = "done"
             ELSE dj_ret' = dj_ret /\ dj_pc' = "gate"
    /\ UNCHANGED <<djvutxt_found, djvused_found, ddjvu_found, dj_use_ocr, dj_limit,
                   dj_total, page_idx, pages_text, ocr_count, img_path, tmp_files,
                   dj_recogs, dj_raised, dj_log>>
    /\ UNCHANGED <<ocrVars, notDjvu>>

DjOcrOffIgnored ==
    /\ dj_pc = "gate"
    /\ ~dj_use_ocr
    /\ dj_total' = 1
    /\ dj_pc' = "page"
    /\ UNCHANGED <<djvutxt_found, djvused_found, ddjvu_found, dj_use_ocr, dj_limit,
                   page_idx, pages_text, ocr_count, img_path, tmp_files,
                   subprocs, dj_recogs, dj_ret, dj_raised,
                   dj_native, djvutxt_res, dj_log>>
    /\ UNCHANGED <<ocrVars, notDjvu>>

\* file_reader.py 429-431
DjOcrOff ==
    /\ dj_pc = "gate"
    /\ ~dj_use_ocr
    /\ dj_ret' = <<>>
    /\ dj_pc' = "done"
    /\ UNCHANGED <<djvutxt_found, djvused_found, ddjvu_found, dj_use_ocr, dj_limit,
                   dj_total, page_idx, pages_text, ocr_count, img_path, tmp_files,
                   subprocs, dj_recogs, dj_raised,
                   dj_native, djvutxt_res, dj_log>>
    /\ UNCHANGED <<ocrVars, notDjvu>>

\* file_reader.py 438-441 with get_djvu_page_count 311-313: djvused is not found
DjCountNoTool ==
    /\ dj_pc = "gate"
    /\ dj_use_ocr
    /\ ToolMissing(djvused_found)
    /\ dj_ret' = <<>>
    /\ dj_pc' = "done"
    /\ UNCHANGED <<djvutxt_found, djvused_found, ddjvu_found, dj_use_ocr, dj_limit,
                   dj_total, page_idx, pages_text, ocr_count, img_path, tmp_files,
                   subprocs, dj_recogs, dj_raised,
                   dj_native, djvutxt_res, dj_log>>
    /\ UNCHANGED <<ocrVars, notDjvu>>

\* get_djvu_page_count (file_reader.py 315-328): the count, 0 standing for None
PageCountOf(o) == IF o.kind = "ok" THEN o.n ELSE 0

\* file_reader.py 438-446: djvused runs
DjCount ==
    /\ dj_pc = "gate"
    /\ dj_use_ocr
    /\ ~ToolMissing(djvused_found)
    /\ subprocs' = Append(subprocs, "djvused")
    /\ \E o \in DjvusedOutcomes :
          IF PageCountOf(o) < 1
          THEN dj_total' = dj_total /\ dj_ret' = <<>> /\ dj_pc' = "done"
          ELSE dj_total' = PageCountOf(o) /\ dj_ret' = dj_ret /\ dj_pc' = "page"
    /\ UNCHANGED <<djvutxt_found, djvused_found, ddjvu_found, dj_use_ocr, dj_limit,
                   page_idx, pages_text, ocr_count, img_path, tmp_files,
                   dj_recogs, dj_raised,
                   dj_native, djvutxt_res, dj_log>>
    /\ UNCHANGED <<ocrVars, notDjvu>>

\* file_reader.py 449: ocr_page_limit is not None and ocr_count >= ocr_page_limit
DjLimitReached(limit, count) == limit # NoLimit /\ count >= limit

\* file_reader.py 448-451: the loop ends by the limit (break) or after the last page
LoopOver == page_idx >= dj_total \/ DjLimitReached(dj_limit, ocr_count)

\* what became of one page of the loop
PageLog(idx, res) == [page |-> idx, res |-> res]

DjPageNoToolStays ==
    /\ dj_pc = "page" /\ ~LoopOver
    /\ ToolMissing(ddjvu_found)
    /\ dj_log' = Append(dj_log, PageLog(page_idx, "notool"))
    /\ UNCHANGED <<dj_pc, djvutxt_found, djvused_found, ddjvu_found, dj_use_ocr,
                   dj_limit, dj_total, page_idx, pages_text, ocr_count, img_path,
                   tmp_files, subprocs, dj_recogs, dj_ret, dj_raised,
                   dj_native, djvutxt_res>>
    /\ UNCHANGED <<ocrVars, notDjvu>>

\* file_reader.py 455-458 with 337-340: ddjvu is not found, the page is skipped
DjPageNoTool ==
    /\ dj_pc = "page" /\ ~LoopOver
    /\ ToolMissing(ddjvu_found)
    /\ dj_log' = Append(dj_log, PageLog(page_idx, "notool"))
    /\ page_idx' = page_idx + 1
    /\ UNCHANGED <<dj_pc, djvutxt_found, djvused_found, ddjvu_found, dj_use_ocr,
                   dj_limit, dj_total, pages_text, ocr_count, img_path, tmp_files,
                   subprocs, dj_recogs, dj_ret, dj_raised,
                   dj_native, djvutxt_res>>
    /\ UNCHANGED <<ocrVars, notDjvu>>

\* file_reader.py 342-343: the temporary file cannot be created; the error
\* leaves extract_djvu_page_image and read_djvu
DjPageTempFails ==
    /\ dj_pc = "page" /\ ~LoopOver
    /\ ~ToolMissing(ddjvu_found)
    /\ dj_raised' = TRUE
    /\ dj_pc' = "done"
    /\ UNCHANGED <<djvutxt_found, djvused_found, ddjvu_found, dj_use_ocr, dj_limit,
                   dj_total, page_idx, pages_text, ocr_count, img_path, tmp_files,
                   subprocs, dj_recogs, dj_ret,
                   dj_native, djvutxt_res, dj_log>>
    /\ UNCHANGED <<ocrVars, notDjvu>>

UnlinkSkipped(existing, path) == existing

\* os.unlink(path) on the set of files that exist
Unlink(existing, path) == existing \ {path}

\* file_reader.py 455 with 337-343: ddjvu is found and the temporary file of
\* the page is created (NamedTemporaryFile, delete=False)
DjPageTemp ==
    /\ dj_pc = "page" /\ ~LoopOver
    /\ ~ToolMissing(ddjvu_found)
    /\ img_path' = page_idx
    /\ tmp_files' = tmp_files \cup {page_idx}
    /\ dj_pc' = "render"
    /\ UNCHANGED <<djvutxt_found, djvused_found, ddjvu_found, dj_use_ocr, dj_limit,
                   dj_total, page_idx, pages_text, ocr_count, subprocs, dj_recogs,
                   dj_ret, dj_raised, dj_native, djvutxt_res, dj_log>>
    /\ UNCHANGED <<ocrVars, notDjvu>>

\* outcomes of the ddjvu call: non-zero exit (CalledProcessError), timeout,
\* exit 0 with an image of at most 4096 bytes, exit 0 with a larger image
RenderOutcomes == {"nonzero", "timeout", "small", "ok"}

DjPageRenderTimeoutEscapes ==
    /\ dj_pc = "render"
    /\ subprocs' = Append(subprocs, "ddjvu")
    /\ \E o \in RenderOutcomes :
          /\ IF o = "ok"
             THEN /\ UNCHANGED <<img_path, tmp_files, page_idx, dj_log>>
                  /\ dj_pc' = "ocr"
             ELSE /\ tmp_files' = Unlink(tmp_files, img_path)
                  /\ img_path' = NoImage
                  /\ dj_log' = Append(dj_log, PageLog(page_idx, o))
                  /\ dj_pc' = IF o = "timeout" THEN "done" ELSE "page"
                  /\ page_idx' = page_idx + 1
          /\ dj_raised' = (o = "timeout")
    /\ UNCHANGED <<djvutxt_found, djvused_found, ddjvu_found, dj_use_ocr, dj_limit,
                   dj_total, pages_text, ocr_count, dj_recogs, dj_ret,
                   dj_native, djvutxt_res>>
    /\ UNCHANGED <<ocrVars, notDjvu>>

\* file_reader.py 345-373 and 456-458: ddjvu runs; on every outcome but a
\* usable image the temporary file is removed and the page is skipped
DjPageRender ==
    /\ dj_pc = "render"
    /\ subprocs' = Append(subprocs, "ddjvu")
    /\ \E o \in RenderOutcomes :
          IF o = "ok"
          THEN /\ UNCHANGED <<img_path, tmp_files, page_idx, dj_log>>
               /\ dj_pc' = "ocr"
          ELSE /\ tmp_files' = Unlink(tmp_files, img_path)
               /\ img_path' = NoImage
               /\ dj_log' = Append(dj_log, PageLog(page_idx, o))
               /\ dj_pc' = "page"
               /\ page_idx' = page_idx + 1
    /\ UNCHANGED <<djvutxt_found, djvused_found, ddjvu_found, dj_use_ocr, dj_limit,
                   dj_total, pages_text, ocr_count, dj_recogs, dj_ret, dj_raised,
                   dj_native, djvutxt_res>>
    /\ UNCHANGED <<ocrVars, notDjvu>>

DjvuOcrOutcomes ==
    {[kind |-> k, text |-> <<>>] : k \in {"open_fail", "ctor_fail", "recog_fail"}}
    \cup {[kind |-> "ok", text |-> t] : t \in DjvuOcrTexts}

\* file_reader.py 460-484: the image is opened and recognized; whatever
\* happens the temporary image is removed
DjPageOcr ==
    /\ dj_pc = "ocr"
    /\ \E o \in DjvuOcrOutcomes :
          /\ (o.kind = "ctor_fail" => easyocr_reader = NoReader)
          /\ IF o.kind = "open_fail" THEN UNCHANGED ocrVars
             ELSE GetReaderStep("ru,en", TRUE, o.kind # "ctor_fail")
          /\ dj_recogs' = IF o.kind \in {"recog_fail", "ok"}
                          THEN Append(dj_recogs, page_idx) ELSE dj_recogs
          /\ IF o.kind = "ok" /\ o.text # <<>>
             THEN /\ pages_text' = Append(pages_text, PageEntry(page_idx, o.text))
                  /\ ocr_count' = ocr_count + 1
                  /\ dj_log' = Append(dj_log, PageLog(page_idx, "text"))
             ELSE /\ UNCHANGED <<pages_text, ocr_count>>
                  /\ dj_log' = Append(dj_log,
                         PageLog(page_idx, IF o.kind = "ok" THEN "empty" ELSE o.kind))
    /\ tmp_files' = Unlink(tmp_files, img_path)
    /\ img_path' = NoImage
    /\ page_idx' = page_idx + 1
    /\ dj_pc' = "page"
    /\ UNCHANGED <<djvutxt_found, djvused_found, ddjvu_found, dj_use_ocr, dj_limit,
                   dj_total, subprocs, dj_ret, dj_raised,
                   dj_native, djvutxt_res>>
    /\ UNCHANGED notDjvu

\* file_reader.py 486-492
DjReturn ==
    /\ dj_pc = "page" /\ LoopOver
    /\ dj_ret' = IF pages_text # <<>> THEN Join(pages_text, <<Run(NL, 2)>>) ELSE <<>>
    /\ dj_pc' = "done"
    /\ UNCHANGED <<djvutxt_found, djvused_found, ddjvu_found, dj_use_ocr, dj_limit,
                   dj_total, page_idx, pages_text, ocr_count, img_path, tmp_files,
                   subprocs, dj_recogs, dj_raised,
                   dj_native, djvutxt_res, dj_log>>
    /\ UNCHANGED <<ocrVars, notDjvu>>

DjvuNext ==
    \/ DjNativeSkip \/ DjNativeAttempt \/ DjOcrOff \/ DjCountNoTool \/ DjCount
    \/ DjPageNoTool \/ DjPageTempFails \/ DjPageTemp \/ DjPageRender \/ DjPageOcr \/ DjReturn

SpecDjvu == DjvuInit /\ [][DjvuNext]_vars

\* one call of either per-page reader
ReadersInit == PdfInit \/ DjvuInit

ReadersNext == PdfNext \/ DjvuNext

SpecReaders == ReadersInit /\ [][ReadersNext]_vars

\* one call of either reader in a single thread: a step that can be taken is
\* taken
SpecReadersLive == SpecReaders /\ WF_vars(ReadersNext)

\* ------------------------------------------------------------------------
\* The batch script (main.py 84-239)
\* ------------------------------------------------------------------------
\* file_reader.py 655
SupportedExt == {"txt", "fb2", "epub", "pdf", "djvu"}

ExtOf(k) == IF k % 3 = 1 THEN "txt" ELSE IF k % 3 = 2 THEN "pdf" ELSE "djvu"

\* a file name; n is its place in the order sorted() puts names in
FileName(k) == [n |-> k, ext |-> ExtOf(k)]

\* a file of the directory that get_supported_files leaves out
NotesDocx == [n |-> 0, ext |-> "docx"]

DirEntries == {FileName(k) : k \in 1..MaxFiles} \cup {NotesDocx}

\* file_reader.py 653-663: filter os.listdir by extension, then sorted()
get_supported_files(directory) ==
    LET sup == {f \in directory : f.ext \in SupportedExt}
        ns == SortSet({f.n : f \in sup})
    IN  [i \in 1..Len(ns) |-> CHOOSE f \in sup : f.n = ns[i]]

Text(s) == [none |-> FALSE, text |-> s]

\* 52 characters, 49 after trimming
TextShort == <<Run(SP, 2), Run("A", 49), Run(NL, 1)>>

\* exactly 50 characters, one sentence
TextFloor == <<Run("A", 49), Run(DOT, 1)>>

\* three sentences of 60, 20 and 60 characters
TextLong ==
    <<Run(SP, 2), Run("A", 29), Run(SP, 1), Run("A", 29), Run(DOT, 1), Run(NL, 2),
      Run("B", 19), Run(DOT, 1), Run(SP, 1), Run("C", 59), Run(DOT, 1)>>

\* what read_file returns (file_reader.py 591-650): None, "" or a text
ReadOutcomes == {NoText, Text(<<>>), Text(TextShort), Text(TextFloor), Text(TextLong)}

SkipDocumentNoFloor(raw) == raw.none \/ raw.text = <<>>

\* main.py 126: if not raw_text or len(raw_text.strip()) < 50
SkipDocument(raw) == raw.none \/ raw.text = <<>> \/ PyLen(Strip(raw.text)) < 50

SkipChunkEmptyOnly(chunk) == Strip(chunk) = <<>>

\* main.py 140: if len(chunk.strip()) < 50
SkipChunk(chunk) == PyLen(Strip(chunk)) < 50

\* main.py 56-58 with 52-54: the words that open with a capital letter (A and
\* B stand for capitalised words, C for the others), each reduced to its lemma
extract_candidate_species(text) ==
    LET words == Split(text)
        caps == SelectSeq(words, LAMBDA w : w[1].c \in LemmaSet)
    IN  [k \in 1..Len(caps) |-> caps[k][1].c]

CountOf(seq, x) == Cardinality({k \in 1..Len(seq) : seq[k] = x})

NoContribution == [l \in LemmaSet |-> 0]

\* the lemmas in the order list.sort() gives them
LemmaOrder == <<"A", "B">>

\* "passage: "
PassagePrefix == <<Run("passage:", 8), Run(SP, 1)>>

OldFile(data) == [exists |-> TRUE, data |-> data, run |-> 0]

NewFile(data) == [exists |-> TRUE, data |-> data, run |-> 1]

OldNpy(rows) == [exists |-> TRUE, rows |-> rows, origin |-> "old"]

\* artifacts left by an earlier run
StoredChunks(n) == [k \in 1..n |-> Cat(PassagePrefix, <<Run("C", 49 + k), Run(DOT, 1)>>)]

StoredMeta(n) ==
    [k \in 1..n |-> [source |-> FileName(1), format |-> "txt", length |-> 50 + k]]

StoredSpecies == <<"A">>

\* any one artifact is missing, or all three are
MissingArtifacts ==
    {<<NoFile, NoFile, NoFile>>,
     <<NoFile, OldFile(StoredMeta(1)), OldFile(StoredSpecies)>>,
     <<OldFile(StoredChunks(1)), NoFile, OldFile(StoredSpecies)>>,
     <<OldFile(StoredChunks(1)), OldFile(StoredMeta(1)), NoFile>>}

MainInit ==
    /\ ChunkIdle /\ ClassifyIdle /\ OcrIdle /\ PdfIdle /\ DjvuIdle
    /\ pc = "start" /\ RunIdle
    /\ args_force \in BOOLEAN
    /\ index_file = NoIndexFile
    /\ \/ /\ chunks_file \in {OldFile(StoredChunks(n)) : n \in 0..MaxStored}
          /\ meta_file \in {OldFile(StoredMeta(n)) : n \in 0..MaxStored}
          /\ species_file = OldFile(StoredSpecies)
          /\ npy_file \in {NoNpy} \cup {OldNpy(r) : r \in 0..MaxStored}
          /\ data_dir = {FileName(1)}
       \/ /\ \E m \in MissingArtifacts :
                chunks_file = m[1] /\ meta_file = m[2] /\ species_file = m[3]
          /\ npy_file \in {NoNpy, OldNpy(1)}
          /\ data_dir \in SUBSET DirEntries

\* main.py 93-95
ResumeCondition ==
    chunks_file.exists /\ meta_file.exists /\ species_file.exists /\ ~args_force

\* main.py 93-105
Resume ==
    /\ pc = "start" /\ ResumeCondition
    /\ resume' = TRUE
    /\ all_chunks' = chunks_file.data
    /\ metadata' = meta_file.data
    /\ species_final' = species_file.data
    /\ pc' = "embed"
    /\ UNCHANGED <<files, file_i, raw_text, species_counter, embeddings, index, error,
                   reads, doc_raw, contrib>>
    /\ UNCHANGED <<diskVars, notMain>>

\* main.py 93-95, 106-112
StartFresh ==
    /\ pc = "start" /\ ~ResumeCondition
    /\ resume' = FALSE
    /\ all_chunks' = <<>> /\ metadata' = <<>>
    /\ species_counter' = NoContribution
    /\ files' = get_supported_files(data_dir)
    /\ file_i' = 1
    /\ pc' = "loop"
    /\ UNCHANGED <<raw_text, species_final, embeddings, index, error, reads, doc_raw,
                   contrib>>
    /\ UNCHANGED <<diskVars, notMain>>

\* main.py 114-128: read_file on the next file, and the skip test
ReadDocument ==
    /\ pc = "loop" /\ file_i <= Len(files)
    /\ \E raw \in ReadOutcomes :
          /\ reads' = Append(reads, files[file_i])
          /\ doc_raw' = Append(doc_raw, raw)
          /\ contrib' = Append(contrib, NoContribution)
          /\ IF SkipDocument(raw)
             THEN raw_text' = NoText /\ file_i' = file_i + 1 /\ pc' = "loop"
             ELSE raw_text' = raw /\ file_i' = file_i /\ pc' = "doc"
    /\ UNCHANGED <<resume, files, all_chunks, metadata, species_counter, species_final,
                   embeddings, index, error>>
    /\ UNCHANGED <<diskVars, notMain>>

\* main.py 130-138: metadata, normalisation, the entity counter, and the call
\* of semantic_chunk
BeginDocument ==
    /\ pc = "doc"
    /\ LET text == normalize_text(raw_text.text)
           candidates == extract_candidate_species(text)
           counts == [l \in LemmaSet |-> CountOf(candidates, l)]
       IN  /\ species_counter' = [l \in LemmaSet |-> species_counter[l] + counts[l]]
           /\ contrib' = [contrib EXCEPT ![file_i] = counts]
           /\ sc_text' = text
    /\ sc_pc' = "call"
    /\ pc' = "chunking"
    /\ UNCHANGED <<sentences, sent_sim, chunks, current, sc_i, sc_ret, sc_encodes,
                   sc_round>>
    /\ UNCHANGED <<resume, files, file_i, raw_text, all_chunks, metadata, species_final,
                   embeddings, index, error, reads, doc_raw>>
    /\ UNCHANGED <<diskVars, notMainChunk>>

MetaEntriesPerDocument(file, kept) ==
    [k \in 1..(IF kept = <<>> THEN 0 ELSE 1) |->
        [source |-> file, format |-> file.ext, length |-> PyLen(kept[k])]]

\* main.py 143-149: one metadata entry for each passage kept (title and
\* author left out)
MetaEntries(file, kept) ==
    [k \in 1..Len(kept) |->
        [source |-> file, format |-> file.ext, length |-> PyLen(kept[k])]]

\* main.py 139-151: the passages of the document join the two lists
CollectChunks ==
    /\ pc = "chunking" /\ sc_pc = "ret"
    /\ LET kept == SelectSeq(sc_ret, LAMBDA c : ~SkipChunk(c))
       IN  /\ all_chunks' = all_chunks \o [k \in 1..Len(kept) |-> Cat(PassagePrefix, kept[k])]
           /\ metadata' = metadata \o MetaEntries(files[file_i], kept)
    /\ file_i' = file_i + 1
    /\ raw_text' = NoText
    /\ pc' = "loop"
    /\ sc_pc' = "idle" /\ sc_text' = <<>> /\ sentences' = <<>> /\ sent_sim' = <<>>
    /\ chunks' = <<>> /\ current' = <<>> /\ sc_i' = 0 /\ sc_ret' = <<>>
    /\ sc_encodes' = 0 /\ sc_round' = 0
    /\ UNCHANGED <<resume, files, species_counter, species_final, embeddings, index,
                   error, reads, doc_raw, contrib>>
    /\ UNCHANGED <<diskVars, notMainChunk>>

\* main.py 138: the exception of embedder.encode leaves semantic_chunk; the
\* loop has no handler, the script ends
DocumentRaises ==
    /\ pc = "chunking" /\ sc_pc = "raised"
    /\ pc' = "crashed"
    /\ error' = "encode"
    /\ UNCHANGED <<resume, files, file_i, raw_text, all_chunks, metadata,
                   species_counter, species_final, embeddings, index, reads, doc_raw,
                   contrib>>
    /\ UNCHANGED <<diskVars, notMain>>

\* main.py 156-161: the entity list, filtered, sorted and written
WriteSpecies ==
    /\ pc = "loop" /\ file_i > Len(files)
    /\ species_final' =
           SelectSeq(LemmaOrder, LAMBDA l : species_counter[l] >= MIN_SPECIES_OCC)
    /\ species_file' = NewFile(species_final')
    /\ pc' = "save_chunks"
    /\ UNCHANGED <<resume, files, file_i, raw_text, all_chunks, metadata,
                   species_counter, embeddings, index, error, reads, doc_raw, contrib>>
    /\ UNCHANGED <<args_force, data_dir, chunks_file, meta_file, npy_file, index_file>>
    /\ UNCHANGED notMain

\* main.py 165-166
WriteChunks ==
    /\ pc = "save_chunks"
    /\ chunks_file' = NewFile(all_chunks)
    /\ pc' = "save_metadata"
    /\ UNCHANGED <<resume, files, file_i, raw_text, all_chunks, metadata,
                   species_counter, species_final, embeddings, index, error, reads,
                   doc_raw, contrib>>
    /\ UNCHANGED <<args_force, data_dir, meta_file, species_file, npy_file, index_file>>
    /\ UNCHANGED notMain

\* main.py 167-169
WriteMetadata ==
    /\ pc = "save_metadata"
    /\ meta_file' = NewFile(metadata)
    /\ pc' = "embed"
    /\ UNCHANGED <<resume, files, file_i, raw_text, all_chunks, metadata,
                   species_counter, species_final, embeddings, index, error, reads,
                   doc_raw, contrib>>
    /\ UNCHANGED <<args_force, data_dir, chunks_file, species_file, npy_file, index_file>>
    /\ UNCHANGED notMain

RowsMismatchExcessOnly(rows, n) == rows > n

\* main.py 180: if embeddings.shape[0] != len(all_chunks)
RowsMismatch(rows, n) == rows # n

\* main.py 177-184: the stored array is loaded and its row count checked
EmbeddingsLoad ==
    /\ pc = "embed" /\ npy_file.exists
    /\ embeddings' = [rows |-> npy_file.rows, origin |-> "loaded"]
    /\ IF RowsMismatch(npy_file.rows, Len(all_chunks))
       THEN pc' = "crashed" /\ error' = "ValueError"
       ELSE pc' = "index" /\ error' = error
    /\ UNCHANGED <<resume, files, file_i, raw_text, all_chunks, metadata,
                   species_counter, species_final, index, reads, doc_raw, contrib>>
    /\ UNCHANGED <<diskVars, notMain>>

\* main.py 185-195: the passages are embedded and the array is stored
EmbeddingsCompute ==
    /\ pc = "embed" /\ ~npy_file.exists
    /\ embeddings' = [rows |-> Len(all_chunks), origin |-> "computed"]
    /\ npy_file' = [exists |-> TRUE, rows |-> Len(all_chunks), origin |-> "run"]
    /\ pc' = "index"
    /\ UNCHANGED <<resume, files, file_i, raw_text, all_chunks, metadata,
                   species_counter, species_final, index, error, reads, doc_raw,
                   contrib>>
    /\ UNCHANGED <<args_force, data_dir, chunks_file, meta_file, species_file,
                   index_file>>
    /\ UNCHANGED notMain

\* main.py 187-192: embedder.encode raises
EmbeddingsComputeRaises ==
    /\ pc = "embed" /\ ~npy_file.exists
    /\ pc' = "crashed"
    /\ error' = "encode"
    /\ UNCHANGED <<resume, files, file_i, raw_text, all_chunks, metadata,
                   species_counter, species_final, embeddings, index, reads, doc_raw,
                   contrib>>
    /\ UNCHANGED <<diskVars, notMain>>

\* the integer part of the square root
ISqrt(n) == CHOOSE r \in 0..n : r * r <= n /\ n < (r + 1) * (r + 1)

\* the square root rounded to the nearest integer
RoundSqrt(n) == IF n - ISqrt(n) * ISqrt(n) > ISqrt(n) THEN ISqrt(n) + 1 ELSE ISqrt(n)

Min2(a, b) == IF a < b THEN a ELSE b

Max2(a, b) == IF a > b THEN a ELSE b

FLAT_LIMIT == 5000

NLIST_MIN == 32

NLIST_MAX == 512

NPROBE == 32

UseFlatIndexInclusive(n) == n <= FLAT_LIMIT

\* main.py 204: if n_vectors < 5000
UseFlatIndex(n) == n < FLAT_LIMIT

\* main.py 208: max(32, min(int(np.sqrt(n_vectors)), 512))
NList(n) == Max2(NLIST_MIN, Min2(ISqrt(n), NLIST_MAX))

\* main.py 200: embeddings.shape[1] of an array without rows and without a
\* second axis
IndexNoDimension ==
    /\ pc = "index" /\ embeddings.rows = 0
    /\ pc' = "crashed"
    /\ error' = "IndexError"
    /\ UNCHANGED <<resume, files, file_i, raw_text, all_chunks, metadata,
                   species_counter, species_final, embeddings, index, reads, doc_raw,
                   contrib>>
    /\ UNCHANGED <<diskVars, notMain>>

\* main.py 200-212: the index is created and, when it is the inverted-file
\* index, trained on the embedding matrix
IndexBuild ==
    /\ pc = "index"
    /\ index' = IF UseFlatIndex(embeddings.rows)
                THEN [kind |-> "flat", nlist |-> 0, trained |-> TRUE, ntotal |-> 0,
                      nprobe |-> 0]
                ELSE [kind |-> "ivf", nlist |-> NList(embeddings.rows),
                      trained |-> TRUE, ntotal |-> 0, nprobe |-> 1]
    /\ pc' = "add"
    /\ UNCHANGED <<resume, files, file_i, raw_text, all_chunks, metadata,
                   species_counter, species_final, embeddings, error, reads, doc_raw,
                   contrib>>
    /\ UNCHANGED <<diskVars, notMain>>

\* main.py 214
IndexAdd ==
    /\ pc = "add"
    /\ index' = [index EXCEPT !.ntotal = index.ntotal + embeddings.rows]
    /\ pc' = "nprobe"
    /\ UNCHANGED <<resume, files, file_i, raw_text, all_chunks, metadata,
                   species_counter, species_final, embeddings, error, reads, doc_raw,
                   contrib>>
    /\ UNCHANGED <<diskVars, notMain>>

\* main.py 216-218
IndexNprobe ==
    /\ pc = "nprobe"
    /\ index' = IF index.kind = "ivf" THEN [index EXCEPT !.nprobe = NPROBE] ELSE index
    /\ pc' = "write"
    /\ UNCHANGED <<resume, files, file_i, raw_text, all_chunks, metadata,
                   species_counter, species_final, embeddings, error, reads, doc_raw,
                   contrib>>
    /\ UNCHANGED <<diskVars, notMain>>

\* main.py 220
IndexWrite ==
    /\ pc = "write"
    /\ index_file' = [exists |-> TRUE, kind |-> index.kind, ntotal |-> index.ntotal]
    /\ pc' = "search"
    /\ UNCHANGED <<resume, files, file_i, raw_text, all_chunks, metadata,
                   species_counter, species_final, embeddings, index, error, reads,
                   doc_raw, contrib>>
    /\ UNCHANGED <<args_force, data_dir, chunks_file, meta_file, species_file, npy_file>>
    /\ UNCHANGED notMain

\* list[idx] is defined
ListHas(len, idx) == 0 - len <= idx /\ idx < len

\* the positions index.search can return: stored vectors, and -1 when fewer
\* than three are stored
SearchHits ==
    (0..(index.ntotal - 1)) \cup (IF index.ntotal < 3 THEN {-1} ELSE {})

\* main.py 226-239: the three test queries; a hit is printed from all_chunks
\* and metadata
TestSearch ==
    /\ pc = "search"
    /\ \E hits \in SUBSET SearchHits :
          /\ hits # {}
          /\ IF \E idx \in hits :
                   /\ idx < Len(all_chunks)
                   /\ ~(ListHas(Len(all_chunks), idx) /\ ListHas(Len(metadata), idx))
             THEN pc' = "crashed" /\ error' = "IndexError"
             ELSE pc' = "done" /\ error' = error
    /\ UNCHANGED <<resume, files, file_i, raw_text, all_chunks, metadata,
                   species_counter, species_final, embeddings, index, reads, doc_raw,
                   contrib>>
    /\ UNCHANGED <<diskVars, notMain>>

Next ==
    \/ Resume \/ StartFresh \/ ReadDocument \/ BeginDocument
    \/ ScSentenize \/ ScEncode \/ ScEncodeRaises \/ ScWalk \/ ScFlush
    \/ CollectChunks \/ DocumentRaises
    \/ WriteSpecies \/ WriteChunks \/ WriteMetadata
    \/ EmbeddingsLoad \/ EmbeddingsCompute \/ EmbeddingsComputeRaises
    \/ IndexNoDimension \/ IndexBuild \/ IndexAdd \/ IndexNprobe \/ IndexWrite
    \/ TestSearch

Spec == MainInit /\ [][Next]_vars

\* a file as the next run finds it: what the ended run wrote is marked 2,
\* what it found is left as it is
Aged(file) == IF file.exists /\ file.run = 1 THEN [file EXCEPT !.run = 2] ELSE file

\* the script is interrupted or ends, at any point, and is started again
\* without --force: the process state is gone, the files stay (main.py 87-95)
RunAgain ==
    /\ pc # "start"
    /\ chunks_file.run # 2 /\ meta_file.run # 2 /\ species_file.run # 2
    /\ pc' = "start"
    /\ args_force' = FALSE
    /\ chunks_file' = Aged(chunks_file)
    /\ meta_file' = Aged(meta_file)
    /\ species_file' = Aged(species_file)
    /\ npy_file' = IF npy_file.exists THEN [npy_file EXCEPT !.origin = "old"] ELSE npy_file
    /\ resume' = FALSE /\ files' = <<>> /\ file_i' = 1 /\ raw_text' = NoText
    /\ all_chunks' = <<>> /\ metadata' = <<>>
    /\ species_counter' = [l \in LemmaSet |-> 0] /\ species_final' = <<>>
    /\ embeddings' = NoEmbeddings /\ index' = NoIndex /\ error' = "none"
    /\ reads' = <<>> /\ doc_raw' = <<>> /\ contrib' = <<>>
    /\ sc_pc' = "idle" /\ sc_text' = <<>> /\ sentences' = <<>> /\ sent_sim' = <<>>
    /\ chunks' = <<>> /\ current' = <<>> /\ sc_i' = 0 /\ sc_ret' = <<>>
    /\ sc_encodes' = 0 /\ sc_round' = 0
    /\ UNCHANGED <<data_dir, index_file>>
    /\ UNCHANGED notMainChunk

NextRerun == Next \/ RunAgain

\* the script run, ended at any point, and run once more
SpecRerun == MainInit /\ [][NextRerun]_vars

\* the index stage on embedding matrices of the sizes around its thresholds
IndexSizes ==
    (1..3) \cup {100, 1023, 1024, 1025} \cup (4998..5002)
    \cup {5040, 5041, 5112, 5113, 5183, 5184, 10000, 10100, 10101}
    \cup {262143, 262144, 262145, 263000, 1000000}

IndexInit ==
    /\ ChunkIdle /\ ClassifyIdle /\ OcrIdle /\ PdfIdle /\ DjvuIdle
    /\ args_force = FALSE /\ data_dir = {}
    /\ chunks_file = NoFile /\ meta_file = NoFile /\ species_file = NoFile
    /\ npy_file = NoNpy /\ index_file = NoIndexFile
    /\ resume = FALSE /\ files = <<>> /\ file_i = 1 /\ raw_text = NoText
    /\ all_chunks = <<>> /\ metadata = <<>>
    /\ species_counter = NoContribution /\ species_final = <<>>
    /\ index = NoIndex /\ error = "none"
    /\ reads = <<>> /\ doc_raw = <<>> /\ contrib = <<>>
    /\ pc = "index"
    /\ \E n \in IndexSizes : embeddings = [rows |-> n, origin |-> "computed"]

IndexNext == IndexBuild \/ IndexAdd \/ IndexNprobe \/ IndexWrite

SpecIndex == IndexInit /\ [][IndexNext]_vars

\* ------------------------------------------------------------------------
\* Properties of semantic_chunk
\* ------------------------------------------------------------------------
StrA == <<Run("A", 1), Run(DOT, 1)>>
StrB == <<Run("B", 1), Run(DOT, 1)>>
StrC == <<Run("C", 1), Run(DOT, 1)>>
StrAB == <<Run("A", 1), Run(DOT, 1), Run(SP, 1), Run("B", 1), Run(DOT, 1)>>

\* the adjacent pairs (k, k+1) whose similarity is below 0.80
LowPairs == {k \in 1..(Len(sentences) - 1) : sent_sim[k] < 80}

\* the passage sentence i belongs to when boundaries sit exactly at LowPairs
GroupOf(i) == 1 + Cardinality({k \in LowPairs : k < i})

GroupMembers(j) == {i \in 1..Len(sentences) : GroupOf(i) = j}

GroupText(j) ==
    Join(SubSeq(sentences, MinOf(GroupMembers(j)), MaxOf(GroupMembers(j))), <<Run(SP, 1)>>)

\* C4: for two or more sentences, semantic_chunk puts a passage boundary
\* between sentences i-1 and i exactly when their similarity is below 0.80
\* (0.80 itself keeps them together): the result has one passage more than
\* there are pairs below the threshold, passage j is the space-join of the
\* sentences of group j, and A., B., C. with [0.9, 0.3] gives 'A. B.', 'C.'.
C4_BoundaryIffBelowThreshold ==
    (sc_pc = "ret" /\ Len(sentences) >= 2) =>
        /\ Len(sc_ret) = 1 + Cardinality(LowPairs)
        /\ \A j \in 1..Len(sc_ret) : sc_ret[j] = GroupText(j)
        /\ (sentences = <<StrA, StrB, StrC>> /\ sent_sim = <<90, 30>>)
               => sc_ret = <<StrAB, StrC>>

C4_Witness ==
    /\ sc_pc = "ret"
    /\ sentences = <<StrA, StrB, StrC>>
    /\ sent_sim = <<80, 30>>
    /\ sc_ret = <<StrAB, StrC>>

\* C5: when the detector finds 0 or 1 sentence, semantic_chunk returns the
\* detector's list unchanged and makes no embedding call; a passage fed back
\* that the detector treats as one sentence comes back as exactly itself.
C5_FewSentencesUnchanged ==
    (sc_pc = "ret" /\ Len(sentenize(sc_text)) < 2) =>
        /\ sc_ret = sentenize(sc_text)
        /\ sc_encodes = 0
        /\ (sc_round > 0 /\ Len(sentenize(sc_text)) = 1) => sc_ret = <<sc_text>>

C5_Witness ==
    /\ sc_pc = "ret"
    /\ sc_round = 1
    /\ Len(sentenize(sc_text)) = 1
    /\ sc_ret = <<sc_text>>
    /\ sc_encodes = 0

ReaderParams(r) == [lang |-> r.lang, gpu |-> r.gpu]

\* C9 as stated: over any sequence of get_easyocr_reader calls the engine
\* constructor is invoked at most once, every call returns the same
\* instance, and the instance has the parameters of the first call.
C9_ConstructorInvokedOnce ==
    /\ ctor_calls <= 1
    /\ Cardinality(ger_returned) <= 1
    /\ easyocr_reader # NoReader => ReaderParams(easyocr_reader) = ger_first_args

\* C9 amended: the constructor completes at most once and is never invoked
\* after it has completed (a construction that raises leaves the cache empty,
\* and the next call invokes it again); every call that returns, returns the
\* one cached instance, whose parameters are those of the call whose
\* construction succeeded.
C9_ConstructedOnceAndReused ==
    /\ ctor_ok <= 1
    /\ easyocr_reader # NoReader <=> ctor_ok = 1
    /\ easyocr_reader # NoReader => easyocr_reader.id = ctor_calls
    /\ ger_returned \subseteq {easyocr_reader} \ {NoReader}
    /\ easyocr_reader # NoReader => ReaderParams(easyocr_reader) = ger_ok_args

C9_Witness ==
    /\ ger_calls = 3
    /\ ctor_calls = 2
    /\ ctor_ok = 1
    /\ ger_returned = {easyocr_reader}
    /\ ReaderParams(easyocr_reader) # ger_first_args

\* C10: ocr_page_easyocr returns the empty string and does not raise when
\* rendering, engine construction or recognition fails; read_pdf then goes
\* on with the next page, and never ends in its own handler because of it.
C10_OcrFailureStaysInPage ==
    /\ \A k \in 1..Len(ocr_log) :
          ocr_log[k].kind # "ok" =>
              /\ ocr_log[k].text = <<>>
              /\ ~ocr_log[k].raised
              /\ page_num > ocr_log[k].page
    /\ pdf_error # "ocr"
    /\ (pdf_pc = "done" /\ pdf_error = "none") => page_num = total_pages

C10_Witness ==
    /\ pdf_pc = "done" /\ pdf_error = "none"
    /\ Len(ocr_log) = 2
    /\ ocr_log[1].page = 0 /\ ocr_log[1].kind = "ctor_fail" /\ ocr_log[1].text = <<>>
    /\ ocr_log[2].page = 1 /\ ocr_log[2].kind = "ok" /\ ocr_log[2].text = OcrLong
    /\ pdf_ret # <<>>

\* ------------------------------------------------------------------------
\* Properties of read_djvu
\* ------------------------------------------------------------------------
NoToolFound == ~djvutxt_found /\ ~djvused_found /\ ~ddjvu_found

\* C7: with no DjVuLibre tool locatable, read_djvu starts no subprocess,
\* makes no recognition call (and constructs no engine), does not raise and
\* returns the empty string, with OCR enabled or not.
C7_NoToolsEmptyResult ==
    NoToolFound =>
        /\ subprocs = <<>>
        /\ dj_recogs = <<>>
        /\ ger_calls = 0
        /\ ~dj_raised
        /\ dj_ret = <<>>
        /\ dj_pc \in {"native", "gate", "done"}

C7_Witness ==
    /\ NoToolFound
    /\ dj_use_ocr
    /\ dj_pc = "done"
    /\ dj_ret = <<>>
    /\ subprocs = <<>>

\* ------------------------------------------------------------------------
\* Properties of the batch script
\* ------------------------------------------------------------------------
\* the stored array and the passage list disagree at the embedding stage
StoredRowsDiffer ==
    pc = "embed" /\ npy_file.exists /\ npy_file.rows # Len(all_chunks)

\* C1: whenever a stored embedding array exists at the embedding stage and its
\* row count differs from the number of passages (reloaded or freshly
\* produced), the next step of the run raises ValueError and the run takes no
\* further step: no index is built, no index file is written, and the stored
\* array and the loaded rows stay as they were found.
C1_MismatchRaisesAndStops ==
    /\ [][/\ StoredRowsDiffer =>
                /\ pc' = "crashed" /\ error' = "ValueError"
                /\ index' = NoIndex /\ index_file' = index_file
                /\ npy_file' = npy_file /\ embeddings'.rows = npy_file.rows
                /\ all_chunks' = all_chunks
          /\ pc # "crashed"]_vars
    /\ [](error = "ValueError" =>
             /\ pc = "crashed" /\ index = NoIndex /\ ~index_file.exists
             /\ npy_file.origin = "old" /\ npy_file.rows # Len(all_chunks)
             /\ embeddings = [rows |-> npy_file.rows, origin |-> "loaded"])

C1_Witness ==
    /\ pc = "crashed" /\ error = "ValueError" /\ ~resume
    /\ Len(all_chunks) = 2 /\ npy_file.rows = 1
    /\ index = NoIndex /\ ~index_file.exists

\* the three artifacts of an earlier run are all present and --force is not given
ResumeCase ==
    /\ ~args_force
    /\ chunks_file.exists /\ chunks_file.run = 0
    /\ meta_file.exists /\ meta_file.run = 0
    /\ species_file.exists /\ species_file.run = 0

\* C2: when the passage, metadata and entity artifacts all exist and the force
\* flag is not set, the run calls read_file zero times and works on the three
\* reloaded lists; otherwise a run that has ended has read every supported
\* file of the input directory exactly once, in sorted order.
C2_ResumeReadsNothingElseEveryFileOnce ==
    /\ ResumeCase =>
          /\ reads = <<>>
          /\ pc # "start" =>
                /\ all_chunks = chunks_file.data /\ metadata = meta_file.data
                /\ species_final = species_file.data
    /\ (~ResumeCase /\ pc \in {"done", "crashed"}) =>
          reads = get_supported_files(data_dir)

\* read_file gave None, "" or fewer than 50 characters after trimming
Unreadable(raw) == raw.none \/ raw.text = <<>> \/ PyLen(Strip(raw.text)) < 50

ContribTotal(l) == SumRange([k \in 1..Len(contrib) |-> contrib[k][l]], 1, Len(contrib))

\* C8: a document for which read_file yields None, "" or a text shorter than
\* 50 characters after trimming is the source of no metadata entry (hence of
\* no passage, the two lists growing together), adds nothing to the entity
\* counter, and no passage of the run is empty.
C8_SkippedDocumentAddsNothing ==
    /\ \A k \in 1..Len(reads) :
          Unreadable(doc_raw[k]) =>
              /\ \A j \in 1..Len(metadata) : metadata[j].source # reads[k]
              /\ contrib[k] = NoContribution
    /\ \A l \in LemmaSet : species_counter[l] = ContribTotal(l)
    /\ ~resume =>
          /\ Len(all_chunks) = Len(metadata)
          /\ \A j \in 1..Len(all_chunks) :
                PyLen(all_chunks[j]) >= PyLen(PassagePrefix) + 50

C8_Witness ==
    /\ pc = "done" /\ Len(reads) = 2
    /\ doc_raw[1] = Text(TextShort) /\ doc_raw[2] = Text(TextLong)
    /\ Len(all_chunks) = 2 /\ species_counter["A"] = 2

\* ------------------------------------------------------------------------
\* Properties of the index stage
\* ------------------------------------------------------------------------
Clamp(x, lo, hi) == Max2(lo, Min2(x, hi))

IndexBuilt == pc \in {"add", "nprobe", "write", "search"}

\* what holds of the index whatever the rule for the cluster count
IndexShape(nlist) ==
    /\ IF embeddings.rows < 5000
       THEN index.kind = "flat"
       ELSE /\ index.kind = "ivf" /\ index.nlist = nlist
            /\ index.trained
            /\ pc \in {"write", "search"} => index.nprobe = 32
    /\ pc \in {"nprobe", "write", "search"} => index.ntotal = embeddings.rows
    /\ pc = "add" => index.ntotal = 0
    /\ embeddings.rows = 100 => index.kind = "flat"
    /\ embeddings.rows = 10000 => index.nlist = 100

\* C6 as stated: the cluster count is clamp(round(sqrt(n)), 32, 512)
C6_ClusterCountRounded ==
    IndexBuilt => IndexShape(Clamp(RoundSqrt(embeddings.rows), 32, 512))

\* C6: for every passage count n >= 1, n < 5000 gives the exact index;
\* otherwise the inverted-file index is built with cluster count
\* clamp(floor(sqrt(n)), 32, 512), it is trained before any vector is
\* inserted, and 32 clusters are probed (n = 100 exact, n = 10000 nlist 100).
C6_ClusterCountTruncated ==
    IndexBuilt => IndexShape(Clamp(ISqrt(embeddings.rows), 32, 512))

C6_Witness ==
    /\ pc = "search" /\ embeddings.rows = 5000
    /\ index.kind = "ivf" /\ index.nlist = 70 /\ index.nprobe = 32
    /\ index.ntotal = 5000 /\ index_file.exists

PdfPageText == pdf_doc[page_num + 1]

\* the output of read_pdf grows by the page with this text, or not at all
PdfAppended(text) == pages' = Append(pages, PageEntry(page_num, Strip(Scrub(text))))

\* the steps of read_pdf that finish a page
PdfPageStep == pdf_pc = "page" /\ page_num < total_pages /\ page_num' = page_num + 1

\* C12 (both readers): once the OCR counter of the document has reached
\* ocr_page_limit, no step makes a recognition call, a later page whose native
\* text is longer than the page floor is added to the output, and the reader
\* returns the accumulated text.
C12_LimitStopsRecognitionKeepsNative ==
    [][/\ (pdf_pc = "page" /\ pdf_use_ocr /\ pdf_limit # NoLimit
             /\ ocr_pages_count >= pdf_limit) =>
             /\ ocr_log' = ocr_log
             /\ (PdfPageStep /\ PyLen(Strip(Scrub(PdfPageText))) > 50) =>
                    PdfAppended(PdfPageText)
             /\ pdf_pc' = "done" /\ pdf_error' = "none" =>
                    pdf_ret' = Join(pages, <<Run(NL, 2)>>)
       /\ (dj_pc = "page" /\ dj_limit # NoLimit /\ ocr_count >= dj_limit) =>
             /\ dj_recogs' = dj_recogs
             /\ ~dj_raised'
             /\ (dj_pc' = "done" /\ page_idx < dj_total /\ PyLen(dj_native) > 50) =>
                    dj_ret' # Join(pages_text, <<Run(NL, 2)>>)]_vars

\* the pages on which reader.readtext was called
PdfRecognizedPages ==
    {ocr_log[i].page : i \in {k \in 1..Len(ocr_log) : ocr_log[k].kind \in {"ok", "recog_fail"}}}

\* C13 (both readers): the number of pages on which the recognition engine is
\* invoked during one call never exceeds ocr_page_limit, 0 included.
C13_RecognitionsWithinLimit ==
    /\ pdf_limit # NoLimit => Cardinality(PdfRecognizedPages) <= pdf_limit
    /\ dj_limit # NoLimit => Len(dj_recogs) <= dj_limit

\* C14: in read_djvu no page is rendered by ddjvu before the external
\* converter has been run (and has failed or timed out).
C14_ConverterBeforePageRendering ==
    \A i \in 1..Len(subprocs) :
        subprocs[i] = "ddjvu" => \E j \in 1..(i - 1) : subprocs[j] = "djvupdf"

\* the limit leaves room for one more recognized page
LimitOpen == pdf_limit = NoLimit \/ ocr_pages_count < pdf_limit

\* the call of ocr_page_easyocr made by the step, when it made one
LastOcr == ocr_log'[Len(ocr_log')]

\* the output of read_pdf after a page whose final text is text: the page is
\* added or the output is unchanged, added when the text is longer than the
\* page floor, never added when it is blank
PdfPageResult(text) ==
    /\ PdfAppended(text) \/ pages' = pages
    /\ PyLen(Strip(Scrub(text))) > 50 => PdfAppended(text)
    /\ Strip(Scrub(text)) = <<>> => pages' = pages

\* C15: in read_pdf with OCR enabled and the page limit not reached, a page
\* classified native gets no recognition call and its final text is its native
\* text; a page classified needs-OCR gets exactly one recognition call and its
\* final text is the recognized text when that is not blank, otherwise its
\* native text.
C15_NativeKeptOcrFallsBack ==
    [][(PdfPageStep /\ pdf_use_ocr /\ LimitOpen) =>
          IF HasTextLayer(PdfPageText, pdf_ratio)
          THEN ocr_log' = ocr_log /\ PdfPageResult(PdfPageText)
          ELSE /\ Len(ocr_log') = Len(ocr_log) + 1
               /\ SubSeq(ocr_log', 1, Len(ocr_log)) = ocr_log
               /\ LastOcr.page = page_num
               /\ PdfPageResult(IF Strip(LastOcr.text) # <<>> THEN LastOcr.text
                                ELSE PdfPageText)]_vars

C15_Witness ==
    /\ pdf_pc = "done" /\ pdf_use_ocr /\ pdf_limit = 1 /\ pdf_doc = <<PdfNoise, PdfNative>>
    /\ Len(ocr_log) = 1 /\ ocr_log[1].kind = "recog_fail"
    /\ Len(pages) = 2 /\ text_pages_count = 1

\* the text a page of read_pdf ends with
PdfFinalText ==
    IF ocr_log' # ocr_log /\ Strip(LastOcr.text) # <<>> THEN LastOcr.text ELSE PdfPageText

\* C16 (both readers): the text of a page is in the output if and only if its
\* scrubbed text has at least 50 characters; in read_djvu an added page entry
\* holds at least 50 characters of page text.
C16_PageKeptIffFiftyOrMore ==
    [][/\ PdfPageStep =>
             IF PyLen(Strip(Scrub(PdfFinalText))) >= 50
             THEN PdfAppended(PdfFinalText) ELSE pages' = pages
       /\ pages_text' # pages_text =>
             /\ Len(pages_text') = Len(pages_text) + 1
             /\ PyLen(pages_text'[Len(pages_text')]) >= PyLen(PageEntry(page_idx, <<>>)) + 50]_vars

\* ------------------------------------------------------------------------
\* Further properties of semantic_chunk and of the batch script
\* ------------------------------------------------------------------------
\* the run of sentences that is passage j when the boundaries are the cuts
CutMembers(cuts, j) ==
    {i \in 1..Len(sentences) : 1 + Cardinality({k \in cuts : k < i}) = j}

CutText(cuts, j) ==
    Join(SubSeq(sentences, MinOf(CutMembers(cuts, j)), MaxOf(CutMembers(cuts, j))),
         <<Run(SP, 1)>>)

\* C17: the passages semantic_chunk returns are the sentences cut into
\* non-empty contiguous runs in their order (every sentence in exactly one
\* passage), and the passages joined by single spaces are the sentences joined
\* by single spaces.
C17_PassagesPartitionSentences ==
    sc_pc = "ret" =>
        /\ Join(sc_ret, <<Run(SP, 1)>>) = Join(sentences, <<Run(SP, 1)>>)
        /\ \A j \in 1..Len(sc_ret) : sc_ret[j] # <<>>
        /\ IF sentences = <<>> THEN sc_ret = <<>>
           ELSE \E cuts \in SUBSET (1..(Len(sentences) - 1)) :
                   /\ Len(sc_ret) = 1 + Cardinality(cuts)
                   /\ \A j \in 1..Len(sc_ret) : sc_ret[j] = CutText(cuts, j)

C17_Witness ==
    /\ sc_pc = "ret"
    /\ sentences = <<StrA, StrB, StrC>>
    /\ sent_sim = <<30, 90>>
    /\ Len(sc_ret) = 2 /\ sc_ret[1] = StrA

\* an entry of the passage list is "passage: " followed by the chunk
HasPrefix(entry) ==
    Len(entry) >= 2 /\ entry[1] = PassagePrefix[1] /\ entry[2].c = SP

\* the chunk of an entry: the entry without its first 9 characters
ChunkOf(entry) == Rep(SP, entry[2].n - 1) \o SubSeq(entry, 3, Len(entry))

LongEnough(entries) ==
    \A j \in 1..Len(entries) :
        HasPrefix(entries[j]) /\ PyLen(Strip(ChunkOf(entries[j]))) >= 50

\* C18: every entry appended to the passage list in a run that reads the
\* documents has a chunk of at least 50 characters after trimming, and so has
\* every entry of the checkpoint that run writes.
C18_PassagesAtLeastFifty ==
    /\ ~resume => LongEnough(all_chunks)
    /\ (chunks_file.exists /\ chunks_file.run = 1) =>
          chunks_file.data = all_chunks /\ LongEnough(chunks_file.data)

C18_Witness ==
    /\ pc = "done" /\ reads = <<FileName(1)>> /\ doc_raw = <<Text(TextLong)>>
    /\ Len(all_chunks) = 2 /\ metadata[1].length = 60 /\ metadata[2].length = 60
    /\ chunks_file.run = 1 /\ chunks_file.data = all_chunks

\* C19: in resume mode, when the reloaded passage list (here a non-empty one)
\* and the reloaded metadata list differ in length, the run stops before an
\* index is built or written and never completes.
C19_ResumeLengthMismatchStops ==
    (resume /\ all_chunks # <<>> /\ Len(all_chunks) # Len(metadata)) =>
        /\ index = NoIndex /\ ~index_file.exists
        /\ pc # "done"

\* C20: no failure of a per-document step ends the run: a run that reads the
\* documents ends, normally or not, only after the loop has gone through every
\* file of the directory.
C20_NoDocumentFailureStopsRun ==
    (~resume /\ pc \in {"done", "crashed"}) =>
        /\ file_i > Len(files)
        /\ reads = files

\* the stages of main.py after the document loop
AfterLoop ==
    {"save_chunks", "save_metadata", "embed", "index", "add", "nprobe", "write",
     "search", "done"}

\* C21: with the force flag no stored artifact is used: the run does not
\* resume, every supported file has been read once the loop is over, and the
\* vectors put into the index were computed in this run, not loaded from the
\* array an earlier run stored.
C21_ForceUsesNoStoredArtifact ==
    args_force =>
        /\ ~resume
        /\ (pc \in AfterLoop => reads = files)
        /\ (index # NoIndex /\ index.ntotal > 0 => embeddings.origin = "computed")

\* the djvutxt call failed: timeout, exception or non-zero exit
NativeFailed == djvutxt_res \in {"timeout", "raises", "nonzero"}

\* C22: a timeout, an exception or a non-zero exit of djvutxt ends step 1
\* only: read_djvu raises nothing and returns nothing at that point, and with
\* OCR enabled the next step is step 2 (the page count and the page loop),
\* never the return of the OCR-disabled branch.
C22_NativeFailureFallsToOcr ==
    [][/\ (dj_pc = "native" /\ NativeFailed') =>
              dj_pc' = "gate" /\ ~dj_raised' /\ dj_ret' = dj_ret
       /\ (dj_pc = "gate" /\ NativeFailed /\ dj_use_ocr /\ dj_pc' # "gate") =>
              /\ ~dj_raised'
              /\ \/ dj_pc' = "page" /\ dj_total' >= 1
                 \/ /\ dj_pc' = "done" /\ dj_total' = 0 /\ dj_ret' = <<>>
                    /\ (ToolMissing(djvused_found) \/ subprocs' = Append(subprocs, "djvused"))
      ]_vars

C22_Witness ==
    djvutxt_res = "timeout" /\ dj_use_ocr /\ dj_pc = "ocr" /\ ~dj_raised

\* outcomes of a page that the claim calls a failure of that page
PageFailures == {"nonzero", "timeout", "open_fail", "ctor_fail", "recog_fail"}

\* the pages of the log, in the order they were handled
LoggedPages == [k \in 1..Len(dj_log) |-> dj_log[k].page]

\* C23: a render failure, a render timeout or a recognition exception on a
\* page of read_djvu costs that page only: the step raises nothing, keeps the
\* pages accepted so far and moves on to the next page; when the loop is over
\* without the limit having cut it, every page of the document has been
\* handled, and the accepted pages are what is returned.
C23_PageFailureIsLocal ==
    [][/\ (Len(dj_log') > Len(dj_log) /\ dj_log'[Len(dj_log')].res \in PageFailures) =>
              /\ ~dj_raised'
              /\ pages_text' = pages_text
              /\ dj_pc' = "page" /\ page_idx' = page_idx + 1
       /\ (dj_pc = "page" /\ dj_pc' = "done" /\ ~dj_raised') =>
              /\ DjLimitReached(dj_limit, ocr_count) \/ LoggedPages = [k \in 1..dj_total |-> k - 1]
              /\ dj_ret' = IF pages_text = <<>> THEN <<>>
                           ELSE Join(pages_text, <<Run(NL, 2)>>)
       /\ \A k \in 1..Len(pages_text) : Len(pages_text') >= k /\ pages_text'[k] = pages_text[k]
      ]_vars

\* page 1 was accepted, page 2 failed in the recognition, and the call is over
C23_Witness ==
    /\ dj_pc = "done" /\ Len(dj_log) = 2
    /\ dj_log[1].res = "text" /\ dj_log[2].res = "recog_fail"
    /\ dj_ret = pages_text[1]

\* the string s starts with the string p
StartsWith(s, p) ==
    /\ Len(s) >= Len(p)
    /\ \A i \in 1..(Len(p) - 1) : s[i] = p[i]
    /\ s[Len(p)].c = p[Len(p)].c /\ s[Len(p)].n >= p[Len(p)].n

\* "--- Страница n ---\n", n counted from 1
MarkerOf(n) ==
    <<Run("-", 3), Run(SP, 1), Run("P", 8), Run(SP, 1), Run(DigitOf(n), 1),
      Run(SP, 1), Run("-", 3), Run(NL, 1)>>

\* the page number an entry is marked with, 0 when it carries no marker
PageNoOf(entry) ==
    IF \E n \in 1..9 : StartsWith(entry, MarkerOf(n))
    THEN CHOOSE n \in 1..9 : StartsWith(entry, MarkerOf(n))
    ELSE 0

\* every entry carries the marker of one of the first upto pages, and the
\* page numbers grow strictly along the list
MarkedInOrder(entries, upto) ==
    /\ \A k \in 1..Len(entries) : PageNoOf(entries[k]) \in 1..upto
    /\ \A j, k \in 1..Len(entries) : j < k => PageNoOf(entries[j]) < PageNoOf(entries[k])

\* the entries with "\n\n" between them
OutputOf(entries) ==
    [k \in 1..(2 * Len(entries) - 1) |->
        IF k % 2 = 1 THEN entries[(k + 1) \div 2] ELSE <<Run(NL, 2)>>]

Flatten(parts) == Canon(JoinRange(parts, <<>>, 1, Len(parts)))

\* C24: the page entries of read_pdf and of read_djvu each start with the
\* marker of a page handled so far, numbered from 1, in strictly increasing
\* page order (so no page twice); the text a finished call returns is these
\* entries with one blank line between them, and the empty string when there
\* is none or when read_pdf ended in its exception handler.
C24_PagesMarkedOrderedJoined ==
    /\ MarkedInOrder(pages, page_num)
    /\ MarkedInOrder(pages_text, page_idx)
    /\ pdf_pc = "done" =>
           pdf_ret = IF pdf_error = "none" /\ pages # <<>>
                     THEN Flatten(OutputOf(pages)) ELSE <<>>
    /\ (dj_pc = "done" /\ ~dj_raised /\ dj_total >= 1) =>
           dj_ret = IF pages_text # <<>> THEN Flatten(OutputOf(pages_text)) ELSE <<>>

\* both pages of a document are in the returned text
C24_Witness ==
    \/ pdf_pc = "done" /\ Len(pages) = 2 /\ pdf_ret # <<>>
    \/ dj_pc = "done" /\ Len(pages_text) = 2 /\ dj_ret # <<>>

\* the passages a text can be cut into: the runs of neighbouring sentences
\* of the normalised text, joined by single spaces
RunsOfSentences(raw) ==
    LET sents == sentenize(normalize_text(raw.text))
    IN  {Join(SubSeq(sents, a, b), <<Run(SP, 1)>>) :
            a \in 1..Len(sents), b \in 1..Len(sents)}

\* the same for every text read_file can return in the model
RunsTable == [raw \in ReadOutcomes |-> RunsOfSentences(raw)]

\* C25: in a run that reads the documents the passage list and the metadata
\* list have the same length, entry i of the metadata names a file that was
\* read, with its format and the length of the chunk of passage i, that chunk
\* is a run of sentences of the text read from that file, the entries follow
\* the order of the files, and the two lists the run writes to the checkpoint
\* are these lists.
C25_MetadataParallelToPassages ==
    ~resume =>
        /\ Len(all_chunks) = Len(metadata)
        /\ \A i \in 1..Len(metadata) :
              /\ \E k \in 1..Len(reads) : metadata[i].source = reads[k]
              /\ metadata[i].format = metadata[i].source.ext
              /\ i <= Len(all_chunks)
              /\ HasPrefix(all_chunks[i])
              /\ metadata[i].length = PyLen(ChunkOf(all_chunks[i]))
        /\ \A k \in 1..Len(reads) :
              LET own == {i \in 1..Len(metadata) : metadata[i].source = reads[k]}
                  runs == RunsTable[doc_raw[k]]
              IN  own # {} => \A i \in own : ChunkOf(all_chunks[i]) \in runs
        /\ \A i, j \in 1..Len(metadata) : i < j => metadata[i].source.n <= metadata[j].source.n
        /\ (chunks_file.exists /\ chunks_file.run = 1) => chunks_file.data = all_chunks
        /\ (meta_file.exists /\ meta_file.run = 1) =>
              /\ meta_file.data = metadata
              /\ Len(chunks_file.data) = Len(meta_file.data)

\* two documents of different texts, three passages, checkpoint written
C25_Witness ==
    /\ ~resume /\ pc = "embed"
    /\ doc_raw = <<Text(TextLong), Text(TextFloor)>>
    /\ Len(all_chunks) = 3 /\ Len(metadata) = 3
    /\ metadata[2].source = files[1] /\ metadata[3].source = files[2]
    /\ meta_file.run = 1 /\ Len(meta_file.data) = 3

\* C26: a run that resumes took its three lists from files written by one
\* and the same run: the passage file, the metadata file and the entity file
\* it loaded are all of the run that ended before it, or all of an earlier one.
C26_ResumeFromOneRun ==
    resume =>
        /\ chunks_file.run = meta_file.run
        /\ meta_file.run = species_file.run

\* the entries of the first upto pages of the PDF when only the text layer
\* is used
NativeEntries(upto) ==
    LET idx == SortSet({k \in 1..upto : KeepPage(Strip(Scrub(pdf_doc[k])))})
    IN  [j \in 1..Len(idx) |-> PageEntry(idx[j] - 1, Strip(Scrub(pdf_doc[idx[j]])))]

\* C27: during a call of read_pdf or read_djvu with use_ocr false the engine
\* cache stays as the call found it (no get_easyocr_reader call, no
\* constructor call), nothing is recognized and no page is rendered; the
\* pages of read_pdf are the scrubbed text-layer pages above the page floor
\* and its result is their join (or '' after an exception), and read_djvu
\* returns the accepted djvutxt text or ''.
C27_OcrOffNoRecognition ==
    /\ (pdf_pc # "idle" /\ ~pdf_use_ocr) =>
           /\ OcrIdle \/ EngineCached
           /\ ocr_log = <<>> /\ ocr_pages_count = 0
           /\ pages = NativeEntries(page_num)
           /\ pdf_pc = "done" =>
                  pdf_ret = IF pdf_error = "none" THEN Join(pages, <<Run(NL, 2)>>) ELSE <<>>
    /\ (dj_pc # "idle" /\ ~dj_use_ocr) =>
           /\ OcrIdle
           /\ dj_recogs = <<>> /\ dj_log = <<>> /\ tmp_files = {} /\ ~dj_raised
           /\ \A i \in 1..Len(subprocs) : subprocs[i] = "djvutxt"
           /\ dj_pc = "done" =>
                  \/ dj_ret = <<>>
                  \/ /\ djvutxt_res = "ok" /\ dj_ret = dj_native
                     /\ NativeAccepted(dj_native)

\* OCR is off: a PDF whose first page is a scan and whose second page has a
\* text layer is read to the end, or read_djvu is over after a djvutxt text
\* that was not accepted
C27_Witness ==
    \/ /\ pdf_pc = "done" /\ ~pdf_use_ocr /\ pdf_doc = <<PdfBlank, PdfNative>>
       /\ Len(pages) = 1
    \/ /\ dj_pc = "done" /\ ~dj_use_ocr /\ djvutxt_res = "ok" /\ dj_native # <<>>
       /\ dj_ret = <<>>

\* the states of the cascade of read_djvu, in their order
DjRank(p) ==
    CASE p = "native" -> 1
      [] p = "gate" -> 2
      [] p \in {"page", "render", "ocr"} -> 3
      [] p = "done" -> 4
      [] OTHER -> 0

\* the stages of read_pdf, in their order
PdfRank(p) ==
    CASE p = "open" -> 1
      [] p = "page" -> 2
      [] p = "done" -> 3
      [] OTHER -> 0

\* the call is over
ReaderOver == pdf_pc = "done" \/ dj_pc = "done"

\* a step of a reader goes forward
ReaderForward ==
    /\ DjRank(dj_pc') >= DjRank(dj_pc)
    /\ PdfRank(pdf_pc') >= PdfRank(pdf_pc)
    /\ page_idx' \in {page_idx, page_idx + 1}
    /\ page_num' \in {page_num, page_num + 1}
    /\ (pdf_pc = "page" /\ pdf_pc' = "page") => page_num' = page_num + 1
    /\ (dj_pc \in {"page", "render", "ocr"} /\ dj_pc' = "page") => page_idx' = page_idx + 1
    /\ (dj_pc = "page" /\ dj_pc' = "render") => img_path' = page_idx
    /\ dj_log' # dj_log =>
          /\ Len(dj_log') = Len(dj_log) + 1
          /\ dj_log'[Len(dj_log')].page = page_idx
          /\ page_idx' = page_idx + 1

\* C28: every call of read_pdf and of read_djvu comes to its end (the return,
\* or the exception that leaves read_djvu when no temporary file can be made),
\* whatever the external calls do; no step goes back to an earlier state of the
\* cascade, the page counter never goes back or beyond the page count, and
\* every page is handled at most once.
C28_ReadersTerminate ==
    /\ <>ReaderOver
    /\ [][ReaderForward]_vars
    /\ [](/\ page_idx <= dj_total /\ page_num <= total_pages
          /\ Len(dj_log) <= page_idx
          /\ \A j, k \in 1..Len(dj_log) : j < k => dj_log[j].page < dj_log[k].page)

\* a two-page scan whose first render timed out and whose second page was
\* recognized has been read to the end
C28_Witness ==
    /\ dj_pc = "done" /\ ~dj_raised /\ dj_total = 2 /\ page_idx = 2
    /\ Len(dj_log) = 2 /\ dj_log[1].res = "timeout" /\ dj_log[2].res = "text"

====
